---- MODULE Spec2Model ----
(***************************************************************************)
(* A model of the uuids library (include/uuids/uuidv4.hpp): the cached     *)
(* CPU capability flags, the hybrid hardware/software byte generator with  *)
(* its AES whitening round and version/variant stamping, the 16-byte value *)
(* type with its rendering and comparison, and the xorshift128plus engine  *)
(* of examples/example4.cpp that backs the software path.  The components  *)
(* of the other examples that share one generator among threads follow:    *)
(* RequestTracker (example1), UuidPool (example2), UuidCache (example3)    *)
(* and ShardedDatabase (example5), each stepped statement by statement.    *)
(*                                                                         *)
(* A byte is a number in 0..255.  A 64-bit word is written as its eight    *)
(* base-256 digits, most significant first (so <<0,0,0,0,0,0,0,42>> is the *)
(* number 42); std::memcpy of a word on the little-endian target lays the  *)
(* digits out least significant first.  A UUID is a sequence of 16 bytes   *)
(* whose TLA+ index j+1 holds the code's data[j].                          *)
(***************************************************************************)
EXTENDS Integers, Sequences, FiniteSets, TLC

(***************************************************************************)
(* Bytes and bitwise operations on them.                                   *)
(***************************************************************************)
Byte == 0..255

\* The 8-tuple and the 16-tuple with the elements of f.
Tup8(f) == <<f[1], f[2], f[3], f[4], f[5], f[6], f[7], f[8]>>

Tup16(f) ==
    <<f[1], f[2], f[3], f[4], f[5], f[6], f[7], f[8],
      f[9], f[10], f[11], f[12], f[13], f[14], f[15], f[16]>>

BitOf(x, i) == (x \div (2^i)) % 2

\* The bitwise operations on two 4-bit values, tabulated bit by bit:
\* Nibble...[a + 1][b + 1] is a op b.
NibbleAnd ==
    Tup16([a \in 1..16 |-> Tup16([b \in 1..16 |->
        LET f(i) == BitOf(a - 1, i) * BitOf(b - 1, i)
        IN  f(0) + 2*f(1) + 4*f(2) + 8*f(3)])])

NibbleOr ==
    Tup16([a \in 1..16 |-> Tup16([b \in 1..16 |->
        LET f(i) == IF BitOf(a - 1, i) + BitOf(b - 1, i) > 0 THEN 1 ELSE 0
        IN  f(0) + 2*f(1) + 4*f(2) + 8*f(3)])])

NibbleXor ==
    Tup16([a \in 1..16 |-> Tup16([b \in 1..16 |->
        LET f(i) == (BitOf(a - 1, i) + BitOf(b - 1, i)) % 2
        IN  f(0) + 2*f(1) + 4*f(2) + 8*f(3)])])

\* C's a & b on two bytes.
ByteAnd(a, b) ==
    16 * NibbleAnd[(a \div 16) + 1][(b \div 16) + 1] + NibbleAnd[(a % 16) + 1][(b % 16) + 1]

\* C's a | b on two bytes.
ByteOr(a, b) ==
    16 * NibbleOr[(a \div 16) + 1][(b \div 16) + 1] + NibbleOr[(a % 16) + 1][(b % 16) + 1]

\* C's a ^ b on two bytes.
ByteXor(a, b) ==
    16 * NibbleXor[(a \div 16) + 1][(b \div 16) + 1] + NibbleXor[(a % 16) + 1][(b % 16) + 1]

(***************************************************************************)
(* std::uint64_t arithmetic, modulo 2^64, on words of eight digits.        *)
(***************************************************************************)
WordZero == <<0, 0, 0, 0, 0, 0, 0, 0>>

\* Digit d (0 = least significant) of word w; 0 outside the word.
Digit(w, d) == IF d \in 0..7 THEN w[8 - d] ELSE 0

WordXor(a, b) == Tup8([j \in 1..8 |-> ByteXor(a[j], b[j])])

WordOr(a, b) == Tup8([j \in 1..8 |-> ByteOr(a[j], b[j])])

\* x << k for 0 <= k < 64: the high bits fall off.
WordShl(w, k) ==
    LET q == k \div 8
        r == k % 8
    IN  Tup8([j \in 1..8 |->
            ((Digit(w, 8 - j - q) * (2^r)) % 256)
              + (Digit(w, 8 - j - q - 1) \div (2^(8 - r)))])

\* x >> k for 0 <= k < 64 (logical: the type is unsigned).
WordShr(w, k) ==
    LET q == k \div 8
        r == k % 8
    IN  Tup8([j \in 1..8 |->
            (Digit(w, 8 - j + q) \div (2^r))
              + ((Digit(w, 8 - j + q + 1) * (2^(8 - r))) % 256)])

\* The carry into digit j (1 = most significant) of a + b.
RECURSIVE AddCarry(_, _, _)
AddCarry(a, b, j) ==
    IF j = 8 THEN 0 ELSE (a[j+1] + b[j+1] + AddCarry(a, b, j + 1)) \div 256

\* a + b modulo 2^64.
WordAdd(a, b) == Tup8([j \in 1..8 |-> (a[j] + b[j] + AddCarry(a, b, j)) % 256])

\* Column k (0 = least significant) of the schoolbook product, before carries.
MulColumn(a, b, k) ==
    LET term(i) == a[8 - i] * b[8 - (k - i)]
        RECURSIVE sum(_)
        sum(i) == IF i > k THEN 0 ELSE term(i) + sum(i + 1)
    IN  sum(0)

\* The carry into column k of a * b.
RECURSIVE MulCarry(_, _, _)
MulCarry(a, b, k) ==
    IF k = 0 THEN 0 ELSE (MulColumn(a, b, k - 1) + MulCarry(a, b, k - 1)) \div 256

\* a * b modulo 2^64.
WordMul(a, b) ==
    Tup8([j \in 1..8 |-> (MulColumn(a, b, 8 - j) + MulCarry(a, b, 8 - j)) % 256])

\* The target stores integers least significant byte first.
is_little_endian == TRUE

\* std::memcpy(dst, &w, 8): the object representation of a word.
WordBytes(w) == IF is_little_endian THEN Tup8([j \in 1..8 |-> w[9 - j]]) ELSE w

(***************************************************************************)
(* examples/example4.cpp: the xorshift128plus engine, a conforming         *)
(* RandomNumberEngine with an 8-byte result_type.                          *)
(***************************************************************************)
rotl(x, k) == WordOr(WordShl(x, k), WordShr(x, 64 - k))

splitmix64(x0) ==
    LET x1 == WordAdd(x0, <<158, 55, 121, 185, 127, 74, 124, 21>>)
        x2 == WordMul(WordXor(x1, WordShr(x1, 30)), <<191, 88, 71, 109, 28, 228, 229, 185>>)
        x3 == WordMul(WordXor(x2, WordShr(x2, 27)), <<148, 208, 73, 187, 19, 49, 17, 235>>)
    IN  WordXor(x3, WordShr(x3, 31))

\* xorshift128plus(seed): the two state words.
xorshift128plus(seed) ==
    LET s0 == splitmix64(seed)
    IN  <<s0, splitmix64(s0)>>

\* The value operator() returns from state <<s0, s1>>.
xorshift_result(state) == WordAdd(state[1], state[2])

\* An operator() that computes the next state and does not store it.
xorshift_next_unstored(state) == state

\* The state operator() leaves behind.
xorshift_next(state) ==
    LET s0 == state[1]
        s1 == WordXor(state[2], s0)
    IN  <<WordXor(WordXor(rotl(s0, 55), s1), WordShl(s1, 14)), rotl(s1, 36)>>

(***************************************************************************)
(* _mm_aesenc_si128(data, key): one AES encryption round on the 16 bytes   *)
(* (ShiftRows, SubBytes, MixColumns, then xor with the round key).  The    *)
(* state is column-major: byte r + 4c is row r of column c.                *)
(***************************************************************************)
SBox ==
    <<
            99, 124, 119, 123, 242, 107, 111, 197,  48,   1, 103,  43, 254, 215, 171, 118,
           202, 130, 201, 125, 250,  89,  71, 240, 173, 212, 162, 175, 156, 164, 114, 192,
           183, 253, 147,  38,  54,  63, 247, 204,  52, 165, 229, 241, 113, 216,  49,  21,
             4, 199,  35, 195,  24, 150,   5, 154,   7,  18, 128, 226, 235,  39, 178, 117,
             9, 131,  44,  26,  27, 110,  90, 160,  82,  59, 214, 179,  41, 227,  47, 132,
            83, 209,   0, 237,  32, 252, 177,  91, 106, 203, 190,  57,  74,  76,  88, 207,
           208, 239, 170, 251,  67,  77,  51, 133,  69, 249,   2, 127,  80,  60, 159, 168,
            81, 163,  64, 143, 146, 157,  56, 245, 188, 182, 218,  33,  16, 255, 243, 210,
           205,  12,  19, 236,  95, 151,  68,  23, 196, 167, 126,  61, 100,  93,  25, 115,
            96, 129,  79, 220,  34,  42, 144, 136,  70, 238, 184,  20, 222,  94,  11, 219,
           224,  50,  58,  10,  73,   6,  36,  92, 194, 211, 172,  98, 145, 149, 228, 121,
           231, 200,  55, 109, 141, 213,  78, 169, 108,  86, 244, 234, 101, 122, 174,   8,
           186, 120,  37,  46,  28, 166, 180, 198, 232, 221, 116,  31,  75, 189, 139, 138,
           112,  62, 181, 102,  72,   3, 246,  14,  97,  53,  87, 185, 134, 193,  29, 158,
           225, 248, 152,  17, 105, 217, 142, 148, 155,  30, 135, 233, 206,  85,  40, 223,
           140, 161, 137,  13, 191, 230,  66, 104,  65, 153,  45,  15, 176,  84, 187,  22 >>

SubByte(b) == SBox[b + 1]

\* Multiplication by x in GF(2^8) modulo x^8 + x^4 + x^3 + x + 1.
xtime(b) == IF b >= 128 THEN ByteXor((2 * b) % 256, 27) ELSE 2 * b

Xor4(a, b, c, d) == ByteXor(ByteXor(a, b), ByteXor(c, d))

ShiftRows(s) ==
    Tup16([p \in 1..16 |->
        LET r == (p - 1) % 4
            c == (p - 1) \div 4
        IN  s[r + 4 * ((c + r) % 4) + 1]])

SubBytes(s) == Tup16([p \in 1..16 |-> SubByte(s[p])])

MixColumns(s) ==
    Tup16([p \in 1..16 |->
        LET r  == (p - 1) % 4
            c  == (p - 1) \div 4
            a0 == s[4*c + r + 1]
            a1 == s[4*c + ((r + 1) % 4) + 1]
            a2 == s[4*c + ((r + 2) % 4) + 1]
            a3 == s[4*c + ((r + 3) % 4) + 1]
        IN  Xor4(xtime(a0), ByteXor(xtime(a1), a1), a2, a3)])

mm_aesenc_si128(data, key) ==
    LET m == MixColumns(SubBytes(ShiftRows(data)))
    IN  Tup16([p \in 1..16 |-> ByteXor(m[p], key[p])])

\* The key with its two halves exchanged.
AesKey_swapped ==
    WordBytes(<<0, 0, 0, 0, 27, 135, 53, 147>>) \o WordBytes(<<0, 0, 0, 0, 158, 55, 121, 185>>)

\* _mm_set_epi64x(0x1b873593, 0x9e3779b9) as it lies in memory.
AesKey ==
    WordBytes(<<0, 0, 0, 0, 158, 55, 121, 185>>) \o WordBytes(<<0, 0, 0, 0, 27, 135, 53, 147>>)

(***************************************************************************)
(* include/uuids/uuidv4.hpp, hardware_rng: the capability queries and the  *)
(* guarded instructions.  cpu[f] is what simd::has_feature(f) answers on   *)
(* the running processor and build[f] what simd::compile_time::has<f>()    *)
(* answers for the build; both are fixed for the life of the process.     *)
(* An instruction executed on a processor that lacks it faults.            *)
(***************************************************************************)
Features == {"RDRND", "RDSEED", "AES"}

\* simd::has_feature(f)
has_feature(cpuFlags, f) == cpuFlags[f]

\* A function-local `static const bool supported': zero until its guarded
\* initializer has run, then the value the initializer computed.
StaticUninit == [guard |-> "uninit", value |-> FALSE]

\* A query that takes the build's word for it.
supported_value_assumed(cache, cpuFlags, f) == TRUE

\* The value a call of rdrand_supported / rdseed_supported / aesni_supported
\* returns: the cached one, or the one the initializer computes on first use.
supported_value(cache, cpuFlags, f) ==
    IF cache[f].guard = "done" THEN cache[f].value ELSE has_feature(cpuFlags, f)

\* The cache after such a call.
supported_cache(cache, cpuFlags, f) ==
    IF cache[f].guard = "done"
    THEN cache
    ELSE [cache EXCEPT ![f] = [guard |-> "done", value |-> has_feature(cpuFlags, f)]]

\* The rdrand64 / rdseed64 step instruction: the drawn word, or a fault on a
\* processor without the instruction.
hw_step(cpuFlags, f, draw) ==
    IF cpuFlags[f] THEN [fault |-> FALSE, value |-> draw]
                   ELSE [fault |-> TRUE, value |-> WordZero]

\* hardware_rng::rdrand() and hardware_rng::rdseed()
hw_draw(cache, cpuFlags, buildFlags, f, draw) ==
    IF ~supported_value(cache, cpuFlags, f)
    THEN [fault |-> FALSE, value |-> WordZero]
    ELSE IF buildFlags[f] THEN hw_step(cpuFlags, f, draw)
                          ELSE [fault |-> FALSE, value |-> WordZero]

\* hardware_rng::aesni_enc(key, data)
aesni_enc(cache, cpuFlags, buildFlags, key, data) ==
    IF ~supported_value(cache, cpuFlags, "AES")
    THEN [fault |-> FALSE, value |-> data]
    ELSE IF buildFlags["AES"]
         THEN IF cpuFlags["AES"]
              THEN [fault |-> FALSE, value |-> mm_aesenc_si128(data, key)]
              ELSE [fault |-> TRUE, value |-> data]
         ELSE [fault |-> FALSE, value |-> data]

(***************************************************************************)
(* optimized_generator<xorshift128plus>                                    *)
(***************************************************************************)
\* uuid_bytes(): data{}
UuidZero == Tup16([p \in 1..16 |-> 0])

\* uuid.data[6] = (uuid.data[6] & 0x0F) | 0x40
stamp_version(b) == ByteOr(ByteAnd(b, 15), 64)

\* uuid.data[8] = (uuid.data[8] & 0x3F) | 0x80
stamp_variant(b) == ByteOr(ByteAnd(b, 63), 128)

\* A finalization that stamps the version and forgets the variant.
stamp_without_variant(u) ==
    Tup16([p \in 1..16 |-> IF p = 7 THEN stamp_version(u[7]) ELSE u[p]])

\* The two finalization assignments.
stamp(u) ==
    Tup16([p \in 1..16 |->
        IF p = 7 THEN stamp_version(u[7])
        ELSE IF p = 9 THEN stamp_variant(u[9]) ELSE u[p]])

\* The two memcpy calls that lay v1 over data[0..7] and v2 over data[8..15].
copy_pair(v1, v2) == WordBytes(v1) \o WordBytes(v2)

\* A setup that asks about RDRAND only.
setup_hw_rng_rdrand_only(cpuFlags) == has_feature(cpuFlags, "RDRND")

\* setup_hw_rng()
setup_hw_rng(cpuFlags) == has_feature(cpuFlags, "RDRND") \/ has_feature(cpuFlags, "RDSEED")

\* generate_sw(): sizeof(result_type) == 8 for xorshift128plus, so the
\* `if constexpr' keeps the two-draw branch.  Returns the value, the bytes
\* before finalization and the engine state left behind.
generate_sw(rng) ==
    LET v1   == xorshift_result(rng)
        rng1 == xorshift_next(rng)
        v2   == xorshift_result(rng1)
        rng2 == xorshift_next(rng1)
        raw  == copy_pair(v1, v2)
    IN  [uuid |-> stamp(raw), raw |-> raw, rng |-> rng2, path |-> "sw",
         fault |-> FALSE, draws |-> 2]

\* v1 != 0 || v2 != 0
usable(v1, v2) == v1 # WordZero \/ v2 # WordZero

\* generate_hw(), given the words r1, r2 the RDRAND steps and s1, s2 the
\* RDSEED steps would deliver.  The result names the value, the 16 bytes
\* before finalization, the path taken, the caches and engine state left
\* behind, the pairs drawn in the order they were drawn, and how many draws
\* of each kind were made.
generate_hw(cache, cpuFlags, buildFlags, rng, r1, r2, s1, s2) ==
    LET rdrand_ok == supported_value(cache, cpuFlags, "RDRND")
        cache1    == supported_cache(cache, cpuFlags, "RDRND")
        a1        == hw_draw(cache1, cpuFlags, buildFlags, "RDRND", r1)
        a2        == hw_draw(cache1, cpuFlags, buildFlags, "RDRND", r2)
        used1     == rdrand_ok /\ usable(a1.value, a2.value)
        fault1    == rdrand_ok /\ (a1.fault \/ a2.fault)
        rdseed_ok == ~used1 /\ supported_value(cache1, cpuFlags, "RDSEED")
        cache2    == IF used1 THEN cache1 ELSE supported_cache(cache1, cpuFlags, "RDSEED")
        b1        == hw_draw(cache2, cpuFlags, buildFlags, "RDSEED", s1)
        b2        == hw_draw(cache2, cpuFlags, buildFlags, "RDSEED", s2)
        used2     == rdseed_ok /\ usable(b1.value, b2.value)
        fault2    == rdseed_ok /\ (b1.fault \/ b2.fault)
        used      == used1 \/ used2
        hw        == IF used1 THEN copy_pair(a1.value, a2.value)
                              ELSE copy_pair(b1.value, b2.value)
        cache3    == supported_cache(cache2, cpuFlags, "AES")
        mix       == supported_value(cache2, cpuFlags, "AES") /\ buildFlags["AES"]
        enc       == aesni_enc(cache3, cpuFlags, buildFlags, AesKey, hw)
        raw       == IF mix THEN enc.value ELSE hw
        counts    == [rdrand |-> IF rdrand_ok THEN 2 ELSE 0,
                      rdseed |-> IF rdseed_ok THEN 2 ELSE 0]
        tried     == (IF rdrand_ok THEN <<<<"rdrand", a1.value, a2.value>>>> ELSE <<>>)
                        \o (IF rdseed_ok THEN <<<<"rdseed", b1.value, b2.value>>>> ELSE <<>>)
        sw        == generate_sw(rng)
    IN  IF fault1 \/ fault2
        THEN [uuid |-> UuidZero, raw |-> UuidZero, hw |-> UuidZero, rng |-> rng,
              path |-> "fault", mixed |-> FALSE, fault |-> TRUE, cache |-> cache2,
              tried |-> tried, rdrand |-> counts.rdrand, rdseed |-> counts.rdseed, aes |-> 0, draws |-> 0]
        ELSE IF ~used
        THEN [uuid |-> sw.uuid, raw |-> sw.raw, hw |-> UuidZero, rng |-> sw.rng,
              path |-> "fallback", mixed |-> FALSE, fault |-> FALSE, cache |-> cache2,
              tried |-> tried, rdrand |-> counts.rdrand, rdseed |-> counts.rdseed, aes |-> 0,
              draws |-> sw.draws]
        ELSE IF mix /\ enc.fault
        THEN [uuid |-> UuidZero, raw |-> UuidZero, hw |-> hw, rng |-> rng,
              path |-> "fault", mixed |-> FALSE, fault |-> TRUE, cache |-> cache3,
              tried |-> tried, rdrand |-> counts.rdrand, rdseed |-> counts.rdseed, aes |-> 1, draws |-> 0]
        ELSE [uuid |-> stamp(raw), raw |-> raw, hw |-> hw, rng |-> rng,
              path |-> IF used1 THEN "rdrand" ELSE "rdseed", mixed |-> mix,
              fault |-> FALSE, cache |-> cache3,
              tried |-> tried, rdrand |-> counts.rdrand, rdseed |-> counts.rdseed,
              aes |-> IF mix THEN 1 ELSE 0, draws |-> 0]

\* A call whose hardware path mixes the engine's next output into the bytes.
generate_mixing_engine(use_hw_rng, cache, cpuFlags, buildFlags, rng, r1, r2, s1, s2) ==
    LET sw == generate_sw(rng)
        h  == generate_hw(cache, cpuFlags, buildFlags, rng, r1, r2, s1, s2)
        e  == WordBytes(xorshift_result(rng))
    IN  IF ~use_hw_rng
        THEN [uuid |-> sw.uuid, raw |-> sw.raw, hw |-> UuidZero, rng |-> sw.rng,
              path |-> "sw", mixed |-> FALSE, fault |-> FALSE, cache |-> cache,
              tried |-> <<>>, rdrand |-> 0, rdseed |-> 0, aes |-> 0, draws |-> sw.draws]
        ELSE IF h.path \in {"rdrand", "rdseed"}
        THEN [h EXCEPT !.uuid = stamp(Tup16([p \in 1..16 |->
                                   IF p <= 8 THEN ByteXor(h.raw[p], e[p]) ELSE h.raw[p]]))]
        ELSE h

\* optimized_generator::operator()(): use_hw_rng_ ? generate_hw() : generate_sw()
generate(use_hw_rng, cache, cpuFlags, buildFlags, rng, r1, r2, s1, s2) ==
    IF use_hw_rng
    THEN generate_hw(cache, cpuFlags, buildFlags, rng, r1, r2, s1, s2)
    ELSE LET sw == generate_sw(rng)
         IN  [uuid |-> sw.uuid, raw |-> sw.raw, hw |-> UuidZero, rng |-> sw.rng,
              path |-> "sw", mixed |-> FALSE, fault |-> FALSE, cache |-> cache,
              tried |-> <<>>, rdrand |-> 0, rdseed |-> 0, aes |-> 0, draws |-> sw.draws]

(***************************************************************************)
(* basic_uuid: construction, accessors, rendering, comparison.             *)
(***************************************************************************)
\* uuid_bytes(const std::array&): data{bytes}
uuid_bytes_from_array(bytes) == bytes

\* uuid_bytes(std::span): std::copy(bytes.begin(), bytes.end(), data.begin())
RECURSIVE copy_from(_, _, _)
copy_from(bytes, data, k) ==
    IF k > 16 THEN data ELSE copy_from(bytes, [data EXCEPT ![k] = bytes[k]], k + 1)

\* A copy that starts one byte late.
uuid_bytes_from_span_late(bytes) == copy_from(bytes, UuidZero, 2)

uuid_bytes_from_span(bytes) == copy_from(bytes, UuidZero, 1)

\* An upper-case digit table.
hex_upper == <<"0", "1", "2", "3", "4", "5", "6", "7", "8", "9", "A", "B", "C", "D", "E", "F">>

\* static constexpr std::string_view hex = "0123456789abcdef"
hex == <<"0", "1", "2", "3", "4", "5", "6", "7", "8", "9", "a", "b", "c", "d", "e", "f">>

\* The loop of str(), from byte j with i characters written to result.
RECURSIVE str_loop(_, _, _, _)
str_loop(data, j, i, result) ==
    IF j >= 16
    THEN result
    ELSE LET dash == j = 4 \/ j = 6 \/ j = 8 \/ j = 10
             i1   == IF dash THEN i + 1 ELSE i
             r1   == IF dash THEN [result EXCEPT ![i + 1] = "-"] ELSE result
             r2   == [r1 EXCEPT ![i1 + 1] = hex[(data[j + 1] \div 16) + 1]]
             r3   == [r2 EXCEPT ![i1 + 2] = hex[ByteAnd(data[j + 1], 15) + 1]]
         IN  str_loop(data, j + 1, i1 + 2, r3)

\* basic_uuid::str(): std::string result(36, '\0'), then the loop.
str(data) == str_loop(data, 0, 0, [p \in 1..36 |-> "NUL"])

\* std::array<std::uint8_t, 16>'s operator<=>: lexicographic on unsigned bytes.
RECURSIVE array_three_way(_, _, _)
array_three_way(a, b, k) ==
    IF k > 16 THEN "equal"
    ELSE IF a[k] < b[k] THEN "less"
    ELSE IF a[k] > b[k] THEN "greater"
    ELSE array_three_way(a, b, k + 1)

\* struct uuid_bytes declares constructors only: no operator<=> and no
\* operator==, so `x <=> y' and `x == y' on two uuid_bytes find no candidate.
uuid_bytes_has_comparison == FALSE

\* basic_uuid's defaulted operator<=> compares the members in order, here the
\* one member data_ of type uuid_bytes; a defaulted comparison whose member
\* comparison is ill-formed is defined as deleted, and every use of
\* <, ==, > on two values is then rejected.
uuid_three_way(a, b) ==
    IF uuid_bytes_has_comparison THEN array_three_way(a, b, 1) ELSE "deleted"

(***************************************************************************)
(* The state.                                                              *)
(***************************************************************************)
VARIABLES
    cpu,        \* simd::has_feature's answer for each feature
    build,      \* simd::compile_time::has's answer for each feature
    supported,  \* the three function-local statics of hardware_rng
    initRuns,   \* how often each static's initializer has run
    gen,        \* the generator instances: rng_, use_hw_rng_
    out,        \* per generator, the calls of operator() that returned, in order
    fault,      \* the process died on an illegal instruction
    made,       \* the values constructed from caller-supplied buffers
    obs,        \* the last observation made of a value: operation, operands, result
    mode,       \* how the threads share generators: "idle", "shared", "own", "locked"
    tpc,        \* per thread, its position inside its call of operator()
    treg,       \* per thread, the locals of the call in progress
    mutex,      \* the holder of the caller's generator mutex, or "free"
    rets,       \* per thread, the values its calls returned
    fpc,        \* per thread, its position inside a capability query
    fret,       \* per thread, the answers its capability queries returned
    run,        \* one call of operator() taken statement by statement
    db,         \* the ShardedDatabase of example5 and the threads inside its calls
    tracker,    \* the RequestTracker of example1 and the threads inside its calls
    pool,       \* the UuidPool of example2, its callers, refill thread and destructor
    ucache       \* the UuidCache of example3 and the threads inside its calls

envVars  == <<cpu, build>>
genVars  == <<gen, out, fault>>
valVars  == <<made, obs>>
raceVars == <<mode, tpc, treg, mutex, rets>>
flagVars == <<fpc, fret>>
stepVars == <<run>>
dbVars   == <<db>>
demoVars == <<tracker, pool, ucache>>
vars == <<cpu, build, supported, initRuns, gen, out, fault, made, obs,
          mode, tpc, treg, mutex, rets, fpc, fret, run, db, tracker, pool, ucache>>

(***************************************************************************)
(* The inputs the model draws from.                                        *)
(***************************************************************************)
\* The most calls of operator() on one generator.
MaxCalls == 2

Gens == {"g1", "g2"}

Threads == {"t1", "t2"}

Seed42 == <<0, 0, 0, 0, 0, 0, 0, 42>>

\* The explicit seeds tried.
Seeds == {Seed42, <<0, 0, 0, 0, 0, 0, 0, 1>>}

\* What std::random_device{}() may deliver (an unsigned int, widened).
RandomDevice == {<<0, 0, 0, 0, 0, 0, 0, 42>>, <<0, 0, 0, 0, 222, 173, 190, 239>>}

WordOnes == <<255, 255, 255, 255, 255, 255, 255, 255>>

\* All ones but for the four bits that land in the version nibble of data[6].
WordOnesV4 == <<255, 79, 255, 255, 255, 255, 255, 255>>

\* What a hardware draw may deliver: zero (the instruction failed, or drew
\* zero) and two words that differ in the version nibble only.
HwWords == {WordZero, WordOnes, WordOnesV4}

NoGen ==
    [constructed |-> FALSE, seeded |-> FALSE, seed |-> WordZero,
     rng_ |-> <<WordZero, WordZero>>, use_hw_rng_ |-> FALSE]

NoObs == [op |-> "none", a |-> <<>>, b |-> <<>>, result |-> <<>>]

NoReg ==
    [g |-> "g1", s0 |-> WordZero, s1 |-> WordZero, v1 |-> WordZero, v2 |-> WordZero,
     before |-> <<WordZero, WordZero>>]

\* No call is being stepped through: the buffer is uuid_bytes(), all zero.
NoRun ==
    [pc |-> "idle", w |-> 8, use_hw_rng_ |-> FALSE, used_hw_rng |-> FALSE,
     r1 |-> "none", r2 |-> "none", s1 |-> "none", s2 |-> "none",
     i |-> 0, data |-> [p \in 0..15 |-> <<"zero">>],
     outside |-> {}, rdrand |-> 0, rdseed |-> 0, aes |-> 0, draws |-> 0]

\* static constexpr size_t SHARD_COUNT = 16
SHARD_COUNT == 16

\* An empty ShardedDatabase with no thread inside it.
NoDb ==
    [pc |-> [t \in Threads |-> "idle"],
     id |-> [t \in Threads |-> <<>>],
     generator_mutex_ |-> "free",
     shard_mutexes_ |-> [k \in 0..(SHARD_COUNT - 1) |-> "free"],
     shards_ |-> [k \in 0..(SHARD_COUNT - 1) |-> {}],
     generated |-> 0,
     seen |-> [t \in Threads |-> 0],
     returned |-> [t \in Threads |-> <<>>],
     op |-> [t \in Threads |-> "none"],
     value |-> [t \in Threads |-> <<>>],
     result |-> [t \in Threads |-> <<"none">>],
     keyed |-> 0,
     written |-> {}]

\* A RequestTracker with no request and no thread inside it.
NoTracker ==
    [pc |-> [t \in Threads |-> "idle"],
     id |-> [t \in Threads |-> <<>>],
     generated |-> 0,
     seen |-> [t \in Threads |-> 0],
     active_requests_ |-> {},
     active_count_ |-> WordZero,
     completed_count_ |-> WordZero,
     started |-> [t \in Threads |-> <<>>],
     completions |-> <<>>]

\* static constexpr size_t POOL_SIZE: 1024 in the source, scaled down here.
POOL_SIZE == 4

\* static constexpr size_t REFILL_THRESHOLD = POOL_SIZE / 4
REFILL_THRESHOLD == POOL_SIZE \div 4

\* The k-th value the pool's generator returns; the two components are the
\* two 8-byte halves, which a store racing with a load may mix.
PoolValue(k) == <<k, k>>

\* A UuidPool whose constructor has run refill_pool(0, POOL_SIZE) and started
\* the refill thread, which is about to test running_ for the first time.
NoPool ==
    [pool_ |-> [i \in 0..(POOL_SIZE - 1) |-> PoolValue(i + 1)],
     fresh |-> [i \in 0..(POOL_SIZE - 1) |-> TRUE],
     position_ |-> 0,
     running_ |-> TRUE,
     mutex_ |-> "free",
     generated |-> POOL_SIZE,
     gpc |-> [t \in Threads |-> "idle"],
     gpos |-> [t \in Threads |-> 0],
     gseen |-> [t \in Threads |-> 0],
     rpc |-> "while",
     rpos |-> 0,
     ri |-> 0,
     rseen |-> 0,
     rnew |-> PoolValue(0),
     dpc |-> "alive",
     gets |-> 0,
     last |-> [i \in 0..(POOL_SIZE - 1) |-> PoolValue(0)],
     dup |-> FALSE,
     stale |-> FALSE]

\* No UuidCache has been constructed.
NoCache ==
    [built |-> FALSE,
     max_size_ |-> 0,
     entries_ |-> {},
     lru_list_ |-> <<>>,
     records_ |-> {},
     generated |-> 0,
     now |-> 0,
     pc |-> [t \in Threads |-> "idle"],
     seen |-> [t \in Threads |-> 0],
     arg |-> [t \in Threads |-> <<>>],
     calls |-> 0,
     used |-> <<>>,
     fired |-> <<>>,
     last |-> [op |-> "none", id |-> <<>>, result |-> <<>>],
     crashed |-> FALSE]

Init ==
    /\ cpu \in [Features -> BOOLEAN]
    /\ build \in [Features -> BOOLEAN]
    /\ supported = [f \in Features |-> StaticUninit]
    /\ initRuns = [f \in Features |-> 0]
    /\ gen = [g \in Gens |-> NoGen]
    /\ out = [g \in Gens |-> <<>>]
    /\ fault = FALSE
    /\ made = <<>>
    /\ obs = NoObs
    /\ mode = "idle"
    /\ tpc = [t \in Threads |-> 0]
    /\ treg = [t \in Threads |-> NoReg]
    /\ mutex = "free"
    /\ rets = [t \in Threads |-> <<>>]
    /\ fpc = [t \in Threads |-> [at |-> "idle", f |-> "RDRND"]]
    /\ fret = [t \in Threads |-> <<>>]
    /\ run = NoRun
    /\ db = NoDb
    /\ tracker = NoTracker
    /\ pool = NoPool
    /\ ucache = NoCache

(***************************************************************************)
(* One thread: construction of generators and whole calls of operator().   *)
(***************************************************************************)
\* The initializers the queries of a call ran: one for each static it found
\* uninitialized and left initialized.
RunsAfter(cache) ==
    [f \in Features |->
        IF supported[f].guard = "uninit" /\ cache[f].guard = "done"
        THEN initRuns[f] + 1 ELSE initRuns[f]]

\* optimized_generator(seed), reached from basic_uuid_generator(seed)
Constructed(seed, explicit) ==
    [constructed |-> TRUE, seeded |-> explicit, seed |-> seed,
     rng_ |-> xorshift128plus(seed), use_hw_rng_ |-> setup_hw_rng(cpu)]

\* A seeded constructor that ignores its argument and seeds the engine from
\* the random device.
ConstructSeeded_from_device(g) ==
    /\ ~fault
    /\ mode = "idle"
    /\ ~gen[g].constructed
    /\ \E seed \in Seeds : \E rd \in RandomDevice :
          gen' = [gen EXCEPT ![g] =
                     [Constructed(seed, TRUE) EXCEPT !.rng_ = xorshift128plus(rd)]]
    /\ UNCHANGED <<envVars, supported, initRuns, out, fault, valVars, raceVars, flagVars, stepVars, dbVars, demoVars>>

ConstructSeeded(g) ==
    /\ ~fault
    /\ mode = "idle"
    /\ ~gen[g].constructed
    /\ \E seed \in Seeds : gen' = [gen EXCEPT ![g] = Constructed(seed, TRUE)]
    /\ UNCHANGED <<envVars, supported, initRuns, out, fault, valVars, raceVars, flagVars, stepVars, dbVars, demoVars>>

\* optimized_generator(): rng_(std::random_device{}())
ConstructDefault(g) ==
    /\ ~fault
    /\ ~gen[g].constructed
    /\ \E rd \in RandomDevice : gen' = [gen EXCEPT ![g] = Constructed(rd, FALSE)]
    /\ UNCHANGED <<envVars, supported, initRuns, out, fault, valVars, raceVars, flagVars, stepVars, dbVars, demoVars>>

\* The words the RDRAND steps of a call may deliver: a step that is not
\* executed delivers nothing, written as zero.
RdrandWords(use_hw_rng, cache, cpuFlags, buildFlags) ==
    IF use_hw_rng /\ supported_value(cache, cpuFlags, "RDRND") /\ buildFlags["RDRND"]
    THEN HwWords ELSE {WordZero}

\* The words the RDSEED steps of a call may deliver, the RDRAND steps having
\* delivered r1 and r2.
RdseedWords(use_hw_rng, cache, cpuFlags, buildFlags, r1, r2) ==
    IF /\ use_hw_rng
       /\ ~(supported_value(cache, cpuFlags, "RDRND") /\ usable(r1, r2))
       /\ supported_value(cache, cpuFlags, "RDSEED") /\ buildFlags["RDSEED"]
    THEN HwWords ELSE {WordZero}

\* What a returned call leaves in the history.
CallRecord(res, rngBefore) ==
    [uuid |-> res.uuid, raw |-> res.raw, hw |-> res.hw, path |-> res.path,
     mixed |-> res.mixed, tried |-> res.tried, rdrand |-> res.rdrand, rdseed |-> res.rdseed,
     aes |-> res.aes, draws |-> res.draws, before |-> rngBefore]

\* A call that, once its hardware draws failed, stops preferring hardware.
members_after_sticky(self, res) ==
    [self EXCEPT !.rng_ = res.rng,
                 !.use_hw_rng_ = @ /\ res.path # "fallback"]

\* A call that draws from the engine whichever path it takes.
members_after_eager(self, res) ==
    [self EXCEPT !.rng_ = generate_sw(self.rng_).rng]

\* The members of optimized_generator after a call of operator(): rng_ as
\* the path taken left it; neither path assigns use_hw_rng_.
members_after(self, res) == [self EXCEPT !.rng_ = res.rng]

\* basic_uuid_generator::operator()(): uuid_type(gen_())
Call(g) ==
    /\ ~fault
    /\ gen[g].constructed
    /\ Len(out[g]) < MaxCalls
    /\ \E r1, r2 \in RdrandWords(gen[g].use_hw_rng_, supported, cpu, build) :
       \E s1, s2 \in RdseedWords(gen[g].use_hw_rng_, supported, cpu, build, r1, r2) :
       \E res \in {generate(gen[g].use_hw_rng_, supported, cpu, build,
                            gen[g].rng_, r1, r2, s1, s2)} :
              /\ supported' = res.cache
              /\ initRuns' = RunsAfter(res.cache)
              /\ gen' = [gen EXCEPT ![g] = members_after(@, res)]
              /\ fault' = res.fault
              /\ out' = IF res.fault THEN out
                        ELSE [out EXCEPT ![g] = Append(@, CallRecord(res, gen[g].rng_))]
    /\ UNCHANGED <<envVars, valVars, raceVars, flagVars, stepVars, dbVars, demoVars>>

Next ==
    ConstructSeeded("g1") \/ ConstructDefault("g1") \/ Call("g1")

Spec == Init /\ [][Next]_vars

(***************************************************************************)
(* Values: construction from a caller's buffer, and the read-only          *)
(* operations of basic_uuid applied to the values that exist.              *)
(***************************************************************************)
\* The most values constructed from buffers.
MaxMade == 1

BufZero == UuidZero

BufOnes == Tup16([p \in 1..16 |-> 255])

\* 01 23 45 67 89 ab cd ef fe dc ba 98 76 54 32 10
BufDigits == <<1, 35, 69, 103, 137, 171, 205, 239, 254, 220, 186, 152, 118, 84, 50, 16>>

\* The caller's buffers; none has the version-4 layout.
Bufs == {BufZero, BufOnes, BufDigits}

\* The values that exist: <<g, i>> is the i-th value generator g returned
\* and <<"made", k>> the k-th value constructed from a buffer.
Values ==
    {o \in Gens \X (1..MaxCalls) : o[2] <= Len(out[o[1]])}
        \cup {<<"made", k>> : k \in 1..Len(made)}

\* data_.data of a value.
DataOf(o) == IF o[1] = "made" THEN made[o[2]].data_ ELSE out[o[1]][o[2]].uuid

\* basic_uuid(const bytes_type&)
ConstructFromArray ==
    /\ Len(made) < MaxMade
    /\ \E b \in Bufs :
          made' = Append(made, [data_ |-> uuid_bytes_from_array(b), src |-> b])
    /\ UNCHANGED <<envVars, supported, initRuns, genVars, obs, raceVars, flagVars, stepVars, dbVars, demoVars>>

\* basic_uuid(std::span<const std::uint8_t, 16>)
ConstructFromSpan ==
    /\ Len(made) < MaxMade
    /\ \E b \in Bufs :
          made' = Append(made, [data_ |-> uuid_bytes_from_span(b), src |-> b])
    /\ UNCHANGED <<envVars, supported, initRuns, genVars, obs, raceVars, flagVars, stepVars, dbVars, demoVars>>

\* bytes(): return data_.data
ObserveBytes(o) ==
    /\ obs' = [op |-> "bytes", a |-> o, b |-> o, result |-> DataOf(o)]
    /\ UNCHANGED <<envVars, supported, initRuns, genVars, made, raceVars, flagVars, stepVars, dbVars, demoVars>>

\* span(): a view of the 16 bytes of data_.data
ObserveSpan(o) ==
    /\ obs' = [op |-> "span", a |-> o, b |-> o, result |-> [p \in 1..16 |-> DataOf(o)[p]]]
    /\ UNCHANGED <<envVars, supported, initRuns, genVars, made, raceVars, flagVars, stepVars, dbVars, demoVars>>

\* A str() that moves the bytes out of the value it renders.
ObserveStr_moving(o) ==
    /\ obs' = [op |-> "str", a |-> o, b |-> o, result |-> str(DataOf(o))]
    /\ made' = [k \in 1..Len(made) |->
                  IF o = <<"made", k>> THEN [made[k] EXCEPT !.data_ = UuidZero]
                                       ELSE made[k]]
    /\ out' = [g \in Gens |-> [i \in 1..Len(out[g]) |->
                  IF o = <<g, i>> THEN [out[g][i] EXCEPT !.uuid = UuidZero]
                                  ELSE out[g][i]]]
    /\ UNCHANGED <<envVars, supported, initRuns, gen, fault, raceVars, flagVars, stepVars, dbVars, demoVars>>

\* str()
ObserveStr(o) ==
    /\ obs' = [op |-> "str", a |-> o, b |-> o, result |-> str(DataOf(o))]
    /\ UNCHANGED <<envVars, supported, initRuns, genVars, made, raceVars, flagVars, stepVars, dbVars, demoVars>>

\* operator<<(os, uuid): os << uuid.str()
StreamOut(o) ==
    /\ obs' = [op |-> "stream", a |-> o, b |-> o, result |-> str(DataOf(o))]
    /\ UNCHANGED <<envVars, supported, initRuns, genVars, made, raceVars, flagVars, stepVars, dbVars, demoVars>>

\* a <=> b, and with it a < b, a == b, a > b
ObserveCompare(a, b) ==
    /\ obs' = [op |-> "compare", a |-> a, b |-> b,
               result |-> uuid_three_way(DataOf(a), DataOf(b))]
    /\ UNCHANGED <<envVars, supported, initRuns, genVars, made, raceVars, flagVars, stepVars, dbVars, demoVars>>

\* A processor and a build without any of the features: generated values
\* come from the software path.
InitValue == Init /\ \A f \in Features : ~cpu[f] /\ ~build[f]

NextValue ==
    \/ ConstructSeeded("g1")
    \/ Call("g1")
    \/ ConstructFromArray
    \/ ConstructFromSpan
    \/ \E o \in Values : ObserveBytes(o) \/ ObserveSpan(o) \/ ObserveStr(o) \/ StreamOut(o)
    \/ \E a, b \in Values : ObserveCompare(a, b)

SpecValue == InitValue /\ [][NextValue]_vars

(***************************************************************************)
(* Two generators on one thread, their calls in any order.                 *)
(***************************************************************************)
\* A processor without RDRAND and RDSEED.
InitPair == Init /\ ~cpu["RDRND"] /\ ~cpu["RDSEED"]

NextPair ==
    \E g \in Gens : ConstructSeeded(g) \/ Call(g)

SpecPair == InitPair /\ [][NextPair]_vars

(***************************************************************************)
(* Two seeded generators on one thread on a processor with hardware        *)
(* entropy, their calls in any order.                                      *)
(***************************************************************************)
\* The calls the two generators have made between them.
HwPairCalls == Len(out["g1"]) + Len(out["g2"])

\* RDRAND and RDSEED are present and compiled in; AES may or may not be.
InitHwPair ==
    /\ Init
    /\ cpu["RDRND"] /\ cpu["RDSEED"]
    /\ build["RDRND"] /\ build["RDSEED"]

NextHwPair ==
    \E g \in Gens : ConstructSeeded(g) \/ (HwPairCalls < MaxCalls /\ Call(g))

SpecHwPair == InitHwPair /\ [][NextHwPair]_vars

(***************************************************************************)
(* Two threads calling operator() on the software path.  A call of the     *)
(* engine loads state_[0] and state_[1] and stores them back; unsynchron-  *)
(* ized calls on one generator are a data race, whose outcomes are the     *)
(* interleavings of these loads and stores.  The threads either share g1   *)
(* with no lock (as the parallel for_each of examples/example4.cpp does),  *)
(* share g1 under the caller's mutex (as ShardedDatabase::insert of        *)
(* examples/example5.cpp does), or own one generator each.                 *)
(***************************************************************************)
\* The most calls of operator() the threads make between them.
MaxThreadCalls == 2

Modes == {"shared", "own", "locked"}

\* The generator thread t calls.
GenOf(t) == IF mode = "own" /\ t = "t2" THEN "g2" ELSE "g1"

\* std::thread: the threads start once the generators they use exist.
Spawn ==
    /\ mode = "idle"
    /\ gen["g1"].constructed
    /\ \E m \in Modes :
          /\ gen["g2"].constructed <=> m = "own"
          /\ mode' = m
    /\ UNCHANGED <<envVars, supported, initRuns, genVars, valVars, tpc, treg, mutex, rets,
                   flagVars, stepVars, dbVars, demoVars>>

\* A lock that excludes nobody.
may_enter_unlocked(m, holder) == TRUE

\* std::lock_guard<std::mutex> lock(generator_mutex_): whether thread t may
\* go on to call the generator.
may_enter(m, holder) == m = "locked" => holder = "free"

\* The calls begun so far.
CallsBegun ==
    Len(rets["t1"]) + Len(rets["t2"]) + Cardinality({t \in Threads : tpc[t] # 0})

\* The call begins; under the caller's mutex it begins by taking the mutex.
BeginCall(t) ==
    /\ mode \in Modes
    /\ tpc[t] = 0
    /\ CallsBegun < MaxThreadCalls
    /\ may_enter(mode, mutex)
    /\ mutex' = IF mode = "locked" THEN t ELSE mutex
    /\ tpc' = [tpc EXCEPT ![t] = 1]
    /\ treg' = [treg EXCEPT ![t] = [NoReg EXCEPT !.g = GenOf(t)]]
    /\ UNCHANGED <<envVars, supported, initRuns, genVars, valVars, mode, rets, flagVars, stepVars, dbVars, demoVars>>

\* const result_type s0 = state_[0]
Load0(t) ==
    /\ tpc[t] \in {1, 5}
    /\ treg' = [treg EXCEPT ![t].s0 = gen[treg[t].g].rng_[1]]
    /\ tpc' = [tpc EXCEPT ![t] = @ + 1]
    /\ UNCHANGED <<envVars, supported, initRuns, genVars, valVars, mode, mutex, rets, flagVars, stepVars, dbVars, demoVars>>

\* result_type s1 = state_[1]
Load1(t) ==
    /\ tpc[t] \in {2, 6}
    /\ treg' = [treg EXCEPT ![t].s1 = gen[treg[t].g].rng_[2]]
    /\ tpc' = [tpc EXCEPT ![t] = @ + 1]
    /\ UNCHANGED <<envVars, supported, initRuns, genVars, valVars, mode, mutex, rets, flagVars, stepVars, dbVars, demoVars>>

\* state_[0] = rotl(s0, 55) ^ s1 ^ (s1 << 14)
Store0(t) ==
    /\ tpc[t] \in {3, 7}
    /\ gen' = [gen EXCEPT ![treg[t].g].rng_[1] =
                  xorshift_next(<<treg[t].s0, treg[t].s1>>)[1]]
    /\ tpc' = [tpc EXCEPT ![t] = @ + 1]
    /\ UNCHANGED <<envVars, supported, initRuns, out, fault, valVars, mode, treg, mutex, rets,
                   flagVars, stepVars, dbVars, demoVars>>

\* state_[1] = rotl(s1, 36); return result -- into v1 on the first call of
\* the engine and into v2 on the second.
Store1(t) ==
    /\ tpc[t] \in {4, 8}
    /\ gen' = [gen EXCEPT ![treg[t].g].rng_[2] =
                  xorshift_next(<<treg[t].s0, treg[t].s1>>)[2]]
    /\ treg' = IF tpc[t] = 4
               THEN [treg EXCEPT ![t].v1 = xorshift_result(<<treg[t].s0, treg[t].s1>>),
                                 ![t].before = <<treg[t].s0, treg[t].s1>>]
               ELSE [treg EXCEPT ![t].v2 = xorshift_result(<<treg[t].s0, treg[t].s1>>)]
    /\ tpc' = [tpc EXCEPT ![t] = @ + 1]
    /\ UNCHANGED <<envVars, supported, initRuns, out, fault, valVars, mode, mutex, rets,
                   flagVars, stepVars, dbVars, demoVars>>

\* The two memcpy calls, the finalization and the return; the caller's
\* lock_guard, if any, is released after the value is returned.
Return(t) ==
    /\ tpc[t] = 9
    /\ \E raw \in {copy_pair(treg[t].v1, treg[t].v2)} :
          /\ rets' = [rets EXCEPT ![t] = Append(@, stamp(raw))]
          /\ out' = [out EXCEPT ![treg[t].g] = Append(@,
                        [uuid |-> stamp(raw), raw |-> raw, hw |-> UuidZero, path |-> "sw",
                         mixed |-> FALSE, rdrand |-> 0, rdseed |-> 0, aes |-> 0,
                         draws |-> 2, before |-> treg[t].before])]
    /\ mutex' = IF mode = "locked" THEN "free" ELSE mutex
    /\ tpc' = [tpc EXCEPT ![t] = 0]
    /\ UNCHANGED <<envVars, supported, initRuns, gen, fault, valVars, mode, treg, flagVars, stepVars, dbVars, demoVars>>

\* A processor and a build without any of the features.
InitRace == Init /\ \A f \in Features : ~cpu[f] /\ ~build[f]

NextRace ==
    \/ \E g \in Gens : ConstructSeeded(g)
    \/ Spawn
    \/ \E t \in Threads :
          BeginCall(t) \/ Load0(t) \/ Load1(t) \/ Store0(t) \/ Store1(t) \/ Return(t)

SpecRace == InitRace /\ [][NextRace]_vars

(***************************************************************************)
(* Two threads querying the capability flags.  Each of rdrand_supported,   *)
(* rdseed_supported and aesni_supported holds a function-local static: the *)
(* first thread to arrive runs the initializer under the static's guard,   *)
(* a thread arriving meanwhile waits, and a thread arriving later reads.   *)
(***************************************************************************)
\* The most capability queries one thread makes.
MaxQueries == 2

\* A static whose guard makes nobody wait.
static_entry_unguarded(cache, f) ==
    IF cache[f].guard = "done" THEN "read" ELSE "init"

\* What a thread entering the function does about the static: read it, run
\* its initializer, or wait for the thread that is running it.
static_entry(cache, f) ==
    IF cache[f].guard = "done" THEN "read"
    ELSE IF cache[f].guard = "uninit" THEN "init"
    ELSE "wait"

\* Thread t calls the query of feature f: it returns the cached value at
\* once, or takes the guard of the uninitialized static.
QueryBegin(t, f) ==
    /\ fpc[t].at = "idle"
    /\ Len(fret[t]) < MaxQueries
    /\ static_entry(supported, f) # "wait"
    /\ IF static_entry(supported, f) = "read"
       THEN /\ fret' = [fret EXCEPT ![t] = Append(@, <<f, supported[f].value>>)]
            /\ UNCHANGED <<supported, fpc>>
       ELSE /\ supported' = [supported EXCEPT ![f].guard = "running"]
            /\ fpc' = [fpc EXCEPT ![t] = [at |-> "init", f |-> f]]
            /\ UNCHANGED fret
    /\ UNCHANGED <<envVars, initRuns, genVars, valVars, raceVars, stepVars, dbVars, demoVars>>

\* static const bool supported = simd::has_feature(...): the initializer.
QueryInit(t) ==
    /\ fpc[t].at = "init"
    /\ supported' = [supported EXCEPT ![fpc[t].f].value = has_feature(cpu, fpc[t].f)]
    /\ initRuns' = [initRuns EXCEPT ![fpc[t].f] = @ + 1]
    /\ fpc' = [fpc EXCEPT ![t].at = "release"]
    /\ UNCHANGED <<envVars, genVars, valVars, raceVars, fret, stepVars, dbVars, demoVars>>

\* The guard is released and the function returns the static.
QueryReturn(t) ==
    /\ fpc[t].at = "release"
    /\ supported' = [supported EXCEPT ![fpc[t].f].guard = "done"]
    /\ fret' = [fret EXCEPT ![t] = Append(@, <<fpc[t].f, supported[fpc[t].f].value>>)]
    /\ fpc' = [fpc EXCEPT ![t].at = "idle"]
    /\ UNCHANGED <<envVars, initRuns, genVars, valVars, raceVars, stepVars, dbVars, demoVars>>

\* Any processor; the build's flags play no part in the queries.
InitFlags == Init /\ \A f \in Features : build[f]

NextFlags ==
    \E t \in Threads :
        \/ \E f \in Features : QueryBegin(t, f)
        \/ QueryInit(t)
        \/ QueryReturn(t)

SpecFlags == InitFlags /\ [][NextFlags]_vars

(***************************************************************************)
(* One call of optimized_generator<PRNG>::operator() taken statement by    *)
(* statement, for an engine whose result_type is w bytes wide.  The bytes  *)
(* are kept as what they are copies of: <<"rng", k, j>> is byte j of the   *)
(* engine's k-th draw (counted from 0), <<"RDRND", n, j>> byte j of the    *)
(* n-th RDRAND word of the pair, and so on; a hardware word itself is      *)
(* "zero" or "nonzero".                                                    *)
(***************************************************************************)
\* sizeof(typename PRNG::result_type) of the engines tried: the unsigned
\* integer types, a three-byte struct and a 32-byte struct.
Widths == {1, 2, 3, 4, 8, 16, 32}

\* What hardware_rng::rdrand() / rdseed() may return once the query has
\* answered true: zero when the instruction is not compiled in, else the
\* word the instruction delivers, which is zero when it fails.
HwReturns(buildFlags, f) == IF buildFlags[f] THEN {"zero", "nonzero"} ELSE {"zero"}

\* A test that accepts a pair only when neither word is zero.
pair_usable_both(v1, v2) == v1 # "zero" /\ v2 # "zero"

\* if (v1 != 0 || v2 != 0)
pair_usable(v1, v2) == v1 # "zero" \/ v2 # "zero"

\* std::memcpy(uuid_span.data(), &v1, 8);
\* std::memcpy(uuid_span.subspan(8).data(), &v2, 8)
memcpy_pair(kind) ==
    [p \in 0..15 |-> IF p < 8 THEN <<kind, 1, p>> ELSE <<kind, 2, p - 8>>]

\* A copy that forgets the offset.
memcpy_at_start(data, i, k, w) ==
    [p \in 0..15 |-> IF p < w THEN <<"rng", k, p>> ELSE data[p]]

\* std::memcpy(uuid.data.data() + i, &value, sizeof(result_type)), value
\* being the engine's k-th draw: the bytes of data afterwards.
memcpy_at(data, i, k, w) ==
    [p \in 0..15 |-> IF p >= i /\ p < i + w THEN <<"rng", k, p - i>> ELSE data[p]]

\* The offsets that copy writes beyond the 16 bytes of data.
memcpy_outside(i, w) == {q \in i..(i + w - 1) : q > 15}

\* A loop that does not advance its index.
next_index_stuck(i, w) == i

\* i += sizeof(typename PRNG::result_type)
next_index(i, w) == i + w

\* optimized_generator(seed): use_hw_rng_(setup_hw_rng())
StepConstruct ==
    /\ run.pc = "idle"
    /\ \E w \in Widths :
          run' = [run EXCEPT !.pc = "ready", !.w = w, !.use_hw_rng_ = setup_hw_rng(cpu)]
    /\ UNCHANGED <<envVars, supported, initRuns, genVars, valVars, raceVars, flagVars, dbVars, demoVars>>

\* return use_hw_rng_ ? generate_hw() : generate_sw()
StepCall ==
    /\ run.pc = "ready"
    /\ run' = [run EXCEPT !.pc = IF run.use_hw_rng_ THEN "hw_rdrand" ELSE "sw"]
    /\ UNCHANGED <<envVars, supported, initRuns, genVars, valVars, raceVars, flagVars, dbVars, demoVars>>

\* if (hardware_rng::rdrand_supported())
QueryRdrand ==
    /\ run.pc = "hw_rdrand"
    /\ run' = [run EXCEPT !.pc = IF has_feature(cpu, "RDRND") THEN "rdrand_v1"
                                                               ELSE "hw_rdseed"]
    /\ UNCHANGED <<envVars, supported, initRuns, genVars, valVars, raceVars, flagVars, dbVars, demoVars>>

\* std::uint64_t v1 = hardware_rng::rdrand(); std::uint64_t v2 = ...
DrawRdrand ==
    /\ run.pc \in {"rdrand_v1", "rdrand_v2"}
    /\ \E v \in HwReturns(build, "RDRND") :
          run' = IF run.pc = "rdrand_v1"
                 THEN [run EXCEPT !.r1 = v, !.rdrand = @ + 1, !.pc = "rdrand_v2"]
                 ELSE [run EXCEPT !.r2 = v, !.rdrand = @ + 1, !.pc = "rdrand_test"]
    /\ UNCHANGED <<envVars, supported, initRuns, genVars, valVars, raceVars, flagVars, dbVars, demoVars>>

\* if (v1 != 0 || v2 != 0) { memcpy; memcpy; used_hw_rng = true; }
TestRdrand ==
    /\ run.pc = "rdrand_test"
    /\ run' = IF pair_usable(run.r1, run.r2)
              THEN [run EXCEPT !.data = memcpy_pair("RDRND"), !.used_hw_rng = TRUE,
                               !.pc = "hw_rdseed"]
              ELSE [run EXCEPT !.pc = "hw_rdseed"]
    /\ UNCHANGED <<envVars, supported, initRuns, genVars, valVars, raceVars, flagVars, dbVars, demoVars>>

\* if (!used_hw_rng && hardware_rng::rdseed_supported())
QueryRdseed ==
    /\ run.pc = "hw_rdseed"
    /\ run' = [run EXCEPT !.pc = IF ~run.used_hw_rng /\ has_feature(cpu, "RDSEED")
                                 THEN "rdseed_v1" ELSE "hw_used"]
    /\ UNCHANGED <<envVars, supported, initRuns, genVars, valVars, raceVars, flagVars, dbVars, demoVars>>

\* std::uint64_t v1 = hardware_rng::rdseed(); std::uint64_t v2 = ...
DrawRdseed ==
    /\ run.pc \in {"rdseed_v1", "rdseed_v2"}
    /\ \E v \in HwReturns(build, "RDSEED") :
          run' = IF run.pc = "rdseed_v1"
                 THEN [run EXCEPT !.s1 = v, !.rdseed = @ + 1, !.pc = "rdseed_v2"]
                 ELSE [run EXCEPT !.s2 = v, !.rdseed = @ + 1, !.pc = "rdseed_test"]
    /\ UNCHANGED <<envVars, supported, initRuns, genVars, valVars, raceVars, flagVars, dbVars, demoVars>>

\* if (v1 != 0 || v2 != 0) { memcpy; memcpy; used_hw_rng = true; }
TestRdseed ==
    /\ run.pc = "rdseed_test"
    /\ run' = IF pair_usable(run.s1, run.s2)
              THEN [run EXCEPT !.data = memcpy_pair("RDSEED"), !.used_hw_rng = TRUE,
                               !.pc = "hw_used"]
              ELSE [run EXCEPT !.pc = "hw_used"]
    /\ UNCHANGED <<envVars, supported, initRuns, genVars, valVars, raceVars, flagVars, dbVars, demoVars>>

\* if (!used_hw_rng) return generate_sw();
TestUsed ==
    /\ run.pc = "hw_used"
    /\ run' = [run EXCEPT !.pc = IF run.used_hw_rng THEN "hw_aes" ELSE "sw"]
    /\ UNCHANGED <<envVars, supported, initRuns, genVars, valVars, raceVars, flagVars, dbVars, demoVars>>

\* if (aesni_supported() && compile_time::has<AES>()) { load; aesni_enc; store; }
Whiten ==
    /\ run.pc = "hw_aes"
    /\ run' = IF has_feature(cpu, "AES") /\ build["AES"]
              THEN [run EXCEPT !.data = [p \in 0..15 |-> <<"aesenc", p, run.data>>],
                               !.aes = @ + 1, !.pc = "stamp"]
              ELSE [run EXCEPT !.pc = "stamp"]
    /\ UNCHANGED <<envVars, supported, initRuns, genVars, valVars, raceVars, flagVars, dbVars, demoVars>>

\* generate_sw(): uuid_bytes uuid; if constexpr (sizeof(result_type) == 8)
EnterSw ==
    /\ run.pc = "sw"
    /\ run' = [run EXCEPT !.data = [p \in 0..15 |-> <<"zero">>], !.i = 0,
                          !.pc = IF run.w = 8 THEN "sw8_v1" ELSE "loop"]
    /\ UNCHANGED <<envVars, supported, initRuns, genVars, valVars, raceVars, flagVars, dbVars, demoVars>>

\* const auto v1 = rng_(); const auto v2 = rng_();
Sw8Draw ==
    /\ run.pc \in {"sw8_v1", "sw8_v2"}
    /\ run' = [run EXCEPT !.draws = @ + 1,
                          !.pc = IF run.pc = "sw8_v1" THEN "sw8_v2" ELSE "sw8_copy"]
    /\ UNCHANGED <<envVars, supported, initRuns, genVars, valVars, raceVars, flagVars, dbVars, demoVars>>

\* std::memcpy(uuid_span.data(), &v1, 8);
\* std::memcpy(uuid_span.subspan(8).data(), &v2, 8)
Sw8Copy ==
    /\ run.pc = "sw8_copy"
    /\ run' = [run EXCEPT !.data = memcpy_at(memcpy_at(run.data, 0, 0, 8), 8, 1, 8),
                          !.pc = "stamp"]
    /\ UNCHANGED <<envVars, supported, initRuns, genVars, valVars, raceVars, flagVars, dbVars, demoVars>>

\* for (...; i < 16; ...)
LoopTest ==
    /\ run.pc = "loop"
    /\ run' = [run EXCEPT !.pc = IF run.i < 16 THEN "loop_body" ELSE "stamp"]
    /\ UNCHANGED <<envVars, supported, initRuns, genVars, valVars, raceVars, flagVars, dbVars, demoVars>>

\* const auto value = rng_(); std::memcpy(uuid.data.data() + i, &value,
\* sizeof(result_type)); i += sizeof(result_type).  A copy that runs past
\* the end of data is undefined: the process dies there, or goes on with the
\* bytes beyond data overwritten.
LoopBody ==
    /\ run.pc = "loop_body"
    /\ \E dies \in (IF memcpy_outside(run.i, run.w) = {} THEN {FALSE} ELSE BOOLEAN) :
          run' = [run EXCEPT !.draws = @ + 1,
                             !.data = memcpy_at(run.data, run.i, run.draws, run.w),
                             !.outside = @ \cup memcpy_outside(run.i, run.w),
                             !.i = next_index(run.i, run.w),
                             !.pc = IF dies THEN "crashed" ELSE "loop"]
    /\ UNCHANGED <<envVars, supported, initRuns, genVars, valVars, raceVars, flagVars, dbVars, demoVars>>

\* uuid.data[6] = (uuid.data[6] & 0x0F) | 0x40;
\* uuid.data[8] = (uuid.data[8] & 0x3F) | 0x80; return uuid
StepStamp ==
    /\ run.pc = "stamp"
    /\ run' = [run EXCEPT !.data = [run.data EXCEPT ![6] = <<"version", @>>,
                                                    ![8] = <<"variant", @>>],
                          !.pc = "done"]
    /\ UNCHANGED <<envVars, supported, initRuns, genVars, valVars, raceVars, flagVars, dbVars, demoVars>>

InitSteps == Init

NextSteps ==
    \/ StepConstruct \/ StepCall
    \/ QueryRdrand \/ DrawRdrand \/ TestRdrand
    \/ QueryRdseed \/ DrawRdseed \/ TestRdseed
    \/ TestUsed \/ Whiten
    \/ EnterSw \/ Sw8Draw \/ Sw8Copy \/ LoopTest \/ LoopBody
    \/ StepStamp

SpecSteps == InitSteps /\ [][NextSteps]_vars

\* The call is a single thread running straight-line code: a statement
\* that can be executed is executed.
SpecStepsFair == SpecSteps /\ WF_vars(NextSteps)

(***************************************************************************)
(* examples/example5.cpp, ShardedDatabase::insert(const std::string&),     *)
(* called by two threads on one database, statement by statement.          *)
(***************************************************************************)
\* The most calls of insert(value) begun, over both threads.
MaxInserts == 3

\* 10 32 54 76 98 ba dc fe ef cd ab 89 67 45 23 01
BufDigitsBack == <<16, 50, 84, 118, 152, 186, 220, 254, 239, 205, 171, 137, 103, 69, 35, 1>>

\* The values generator_ returns, in the order it returns them.
DbIds == <<stamp(BufZero), stamp(BufDigits), stamp(BufOnes), stamp(BufDigitsBack)>>

\* get_shard_id(id): (bytes[0] ^ bytes[3] ^ bytes[8] ^ bytes[15]) & (SHARD_COUNT - 1)
get_shard_id(id) ==
    ByteAnd(ByteXor(ByteXor(ByteXor(id[1], id[4]), id[9]), id[16]), SHARD_COUNT - 1)

\* A lock_guard that never waits.
lockable_always(holder) == TRUE

\* std::lock_guard<std::mutex>: the constructor returns once the mutex is free.
lockable(holder) == holder = "free"

\* The calls of insert(value) begun so far.
InsertsBegun ==
    Len(db.returned["t1"]) + Len(db.returned["t2"])
        + Cardinality({t \in Threads :
                          db.pc[t] \notin {"idle", "keyed_locked", "keyed_done"}})

\* std::lock_guard<std::mutex> lock(generator_mutex_)
InsertLockGenerator(t) ==
    /\ db.pc[t] = "idle"
    /\ InsertsBegun < MaxInserts
    /\ lockable(db.generator_mutex_)
    /\ db' = [db EXCEPT !.generator_mutex_ = t, !.pc[t] = "gen_locked"]
    /\ UNCHANGED <<envVars, supported, initRuns, genVars, valVars, raceVars, flagVars, stepVars, demoVars>>

\* id = generator_(): the call reads the generator's state ...
InsertGenerateBegin(t) ==
    /\ db.pc[t] = "gen_locked"
    /\ db' = [db EXCEPT !.seen[t] = db.generated, !.pc[t] = "in_generator"]
    /\ UNCHANGED <<envVars, supported, initRuns, genVars, valVars, raceVars, flagVars, stepVars, demoVars>>

\* ... and writes it back and returns the value made from what it read.
InsertGenerateEnd(t) ==
    /\ db.pc[t] = "in_generator"
    /\ db' = [db EXCEPT !.generated = db.seen[t] + 1,
                        !.id[t] = DbIds[db.seen[t] + 1],
                        !.pc[t] = "gen_called"]
    /\ UNCHANGED <<envVars, supported, initRuns, genVars, valVars, raceVars, flagVars, stepVars, demoVars>>

\* The closing brace of the block: the lock_guard releases generator_mutex_.
InsertUnlockGenerator(t) ==
    /\ db.pc[t] = "gen_called"
    /\ db' = [db EXCEPT !.generator_mutex_ = "free", !.pc[t] = "have_id"]
    /\ UNCHANGED <<envVars, supported, initRuns, genVars, valVars, raceVars, flagVars, stepVars, demoVars>>

\* auto shard = get_shard_id(id);
\* std::lock_guard<std::mutex> lock(shard_mutexes_[shard])
InsertLockShard(t) ==
    /\ db.pc[t] = "have_id"
    /\ lockable(db.shard_mutexes_[get_shard_id(db.id[t])])
    /\ db' = [db EXCEPT !.shard_mutexes_[get_shard_id(db.id[t])] = t,
                        !.pc[t] = "shard_locked"]
    /\ UNCHANGED <<envVars, supported, initRuns, genVars, valVars, raceVars, flagVars, stepVars, demoVars>>

\* shards_[shard].emplace(id, value): no effect if the key is present.
\* written records the pair when the emplace inserted it.
InsertEmplace(t) ==
    /\ db.pc[t] = "shard_locked"
    /\ LET shard == get_shard_id(db.id[t])
           value == <<t, Len(db.returned[t]) + 1>>
           inserted == ~(\E e \in db.shards_[shard] : e[1] = db.id[t])
       IN  db' = [db EXCEPT
                    !.shards_[shard] =
                        IF \E e \in @ : e[1] = db.id[t] THEN @
                        ELSE @ \cup {<<db.id[t], value>>},
                    !.written =
                        IF inserted THEN @ \cup {<<db.id[t], value>>} ELSE @,
                    !.pc[t] = "emplaced"]
    /\ UNCHANGED <<envVars, supported, initRuns, genVars, valVars, raceVars, flagVars, stepVars, demoVars>>

\* The closing brace releases the shard's mutex; return id.
InsertReturn(t) ==
    /\ db.pc[t] = "emplaced"
    /\ db' = [db EXCEPT !.shard_mutexes_[get_shard_id(db.id[t])] = "free",
                        !.returned[t] = Append(@, db.id[t]),
                        !.pc[t] = "idle"]
    /\ UNCHANGED <<envVars, supported, initRuns, genVars, valVars, raceVars, flagVars, stepVars, demoVars>>

\* The processor plays no part in the database's locking.
InitDb == Init /\ (\A f \in Features : ~cpu[f] /\ ~build[f])

NextDb ==
    \E t \in Threads :
        \/ InsertLockGenerator(t)
        \/ InsertGenerateBegin(t)
        \/ InsertGenerateEnd(t)
        \/ InsertUnlockGenerator(t)
        \/ InsertLockShard(t)
        \/ InsertEmplace(t)
        \/ InsertReturn(t)

SpecDb == InitDb /\ [][NextDb]_vars

(***************************************************************************)
(* examples/example5.cpp, ShardedDatabase::insert(id, value), get, update  *)
(* and remove, called by two threads on the database that insert(value)    *)
(* fills.  Each is one critical section of the mutex of the id's shard.    *)
(***************************************************************************)
\* The most calls of insert(id, value), get, update and remove begun.
MaxKeyed == 3

\* The four operations that take the id from the caller.
KeyedOps == {"insert", "get", "update", "remove"}

\* The ids the callers pass: ones insert(value) may have returned, two of
\* shard 0 and one of shard 8.
KeyedIds == {DbIds[1], DbIds[2], DbIds[3]}

\* shards_[shard].find(id) != shards_[shard].end()
shard_has(S, id) == \E e \in S : e[1] = id

\* The shard with the entry of id taken out.
shard_without(S, id) == {e \in S : e[1] # id}

\* An insert that replaces the value of a key that is present.
shard_insert_or_assign(S, id, value) ==
    [shard |-> shard_without(S, id) \cup {<<id, value>>}, result |-> <<"true">>]

\* auto [_, inserted] = shards_[shard].emplace(id, value); return inserted;
shard_insert(S, id, value) ==
    IF shard_has(S, id)
    THEN [shard |-> S, result |-> <<"false">>]
    ELSE [shard |-> S \cup {<<id, value>>}, result |-> <<"true">>]

\* auto it = shards_[shard].find(id);
\* if (it == shards_[shard].end()) return std::nullopt; return it->second;
shard_get(S, id) ==
    IF shard_has(S, id)
    THEN [shard |-> S,
          result |-> <<"value", (CHOOSE e \in S : e[1] = id)[2]>>]
    ELSE [shard |-> S, result |-> <<"nullopt">>]

\* if (it == shards_[shard].end()) return false; it->second = value; return true;
shard_update(S, id, value) ==
    IF shard_has(S, id)
    THEN [shard |-> shard_without(S, id) \cup {<<id, value>>},
          result |-> <<"true">>]
    ELSE [shard |-> S, result |-> <<"false">>]

\* return shards_[shard].erase(id) > 0;
shard_remove(S, id) ==
    [shard |-> shard_without(S, id),
     result |-> IF shard_has(S, id) THEN <<"true">> ELSE <<"false">>]

\* What a call's result makes of the record of the pairs written: a
\* successful insert or update writes the pair, a successful remove takes the
\* id's pair away, every other call leaves the record alone.
written_after(w, op, id, value, result) ==
    IF op \in {"insert", "update"} /\ result = <<"true">>
    THEN shard_without(w, id) \cup {<<id, value>>}
    ELSE IF op = "remove" /\ result = <<"true">>
         THEN shard_without(w, id)
         ELSE w

\* auto shard = get_shard_id(id);
\* std::lock_guard<std::mutex> lock(shard_mutexes_[shard])
KeyedLockShard(t) ==
    /\ db.pc[t] = "idle"
    /\ db.keyed < MaxKeyed
    /\ \E op \in KeyedOps, id \in KeyedIds :
          /\ lockable(db.shard_mutexes_[get_shard_id(id)])
          /\ db' = [db EXCEPT !.shard_mutexes_[get_shard_id(id)] = t,
                              !.op[t] = op,
                              !.id[t] = id,
                              !.value[t] = <<t, 0>>,
                              !.keyed = @ + 1,
                              !.pc[t] = "keyed_locked"]
    /\ UNCHANGED <<envVars, supported, initRuns, genVars, valVars, raceVars, flagVars, stepVars, demoVars>>

\* The body of the call, between the lock and the return.
keyed_body(t, res) ==
    /\ db' = [db EXCEPT
                !.shards_[get_shard_id(db.id[t])] = res.shard,
                !.result[t] = res.result,
                !.written = written_after(@, db.op[t], db.id[t], db.value[t],
                                          res.result),
                !.pc[t] = "keyed_done"]
    /\ UNCHANGED <<envVars, supported, initRuns, genVars, valVars, raceVars, flagVars, stepVars, demoVars>>

\* bool insert(const uuid& id, const std::string& value)
KeyedInsert(t) ==
    /\ db.pc[t] = "keyed_locked" /\ db.op[t] = "insert"
    /\ keyed_body(t, shard_insert(db.shards_[get_shard_id(db.id[t])],
                                  db.id[t], db.value[t]))

\* std::optional<std::string> get(const uuid& id) const
KeyedGet(t) ==
    /\ db.pc[t] = "keyed_locked" /\ db.op[t] = "get"
    /\ keyed_body(t, shard_get(db.shards_[get_shard_id(db.id[t])], db.id[t]))

\* bool update(const uuid& id, const std::string& value)
KeyedUpdate(t) ==
    /\ db.pc[t] = "keyed_locked" /\ db.op[t] = "update"
    /\ keyed_body(t, shard_update(db.shards_[get_shard_id(db.id[t])],
                                  db.id[t], db.value[t]))

\* bool remove(const uuid& id)
KeyedRemove(t) ==
    /\ db.pc[t] = "keyed_locked" /\ db.op[t] = "remove"
    /\ keyed_body(t, shard_remove(db.shards_[get_shard_id(db.id[t])], db.id[t]))

\* The closing brace releases the shard's mutex and the call returns.
KeyedReturn(t) ==
    /\ db.pc[t] = "keyed_done"
    /\ db' = [db EXCEPT !.shard_mutexes_[get_shard_id(db.id[t])] = "free",
                        !.op[t] = "none",
                        !.value[t] = <<>>,
                        !.result[t] = <<"none">>,
                        !.pc[t] = "idle"]
    /\ UNCHANGED <<envVars, supported, initRuns, genVars, valVars, raceVars, flagVars, stepVars, demoVars>>

NextDbKeyed ==
    \/ NextDb
    \/ \E t \in Threads :
          \/ KeyedLockShard(t)
          \/ KeyedInsert(t)
          \/ KeyedGet(t)
          \/ KeyedUpdate(t)
          \/ KeyedRemove(t)
          \/ KeyedReturn(t)

SpecDbKeyed == InitDb /\ [][NextDbKeyed]_vars

(***************************************************************************)
(* examples/example1.cpp: RequestTracker.  Threads call start_request and  *)
(* complete_request on one tracker.  start_request calls generator_()      *)
(* before it takes mutex_ and counts after it has released it; the body of *)
(* complete_request runs under mutex_ from its first statement to its      *)
(* last.  A call of the generator reads the engine's state and writes it   *)
(* back, as in the database above.                                         *)
(***************************************************************************)
\* The most calls of start_request.
MaxRequests == 3

\* The most calls of complete_request.
MaxCompletes == 2

WordOne == <<0, 0, 0, 0, 0, 0, 0, 1>>

\* The std::uint64_t that holds the small number n.
WordOf(n) == <<0, 0, 0, 0, 0, 0, 0, n>>

\* An id no generator call of the model returns.
UnknownId == stamp(<<1, 1, 1, 1, 1, 1, 1, 1, 1, 1, 1, 1, 1, 1, 1, 1>>)

\* The calls of start_request begun so far.
RequestsBegun ==
    Len(tracker.started["t1"]) + Len(tracker.started["t2"])
        + Cardinality({t \in Threads : tracker.pc[t] # "idle"})

\* auto request_id = generator_(): the call reads the generator's state ...
StartGenerateBegin(t) ==
    /\ tracker.pc[t] = "idle"
    /\ RequestsBegun < MaxRequests
    /\ tracker' = [tracker EXCEPT !.seen[t] = tracker.generated, !.pc[t] = "in_generator"]
    /\ UNCHANGED <<envVars, supported, initRuns, genVars, valVars, raceVars, flagVars,
                   stepVars, dbVars, pool, ucache>>

\* ... and writes it back and returns the value made from what it read.
StartGenerateEnd(t) ==
    /\ tracker.pc[t] = "in_generator"
    /\ tracker' = [tracker EXCEPT !.generated = tracker.seen[t] + 1,
                                  !.id[t] = DbIds[tracker.seen[t] + 1],
                                  !.pc[t] = "have_id"]
    /\ UNCHANGED <<envVars, supported, initRuns, genVars, valVars, raceVars, flagVars,
                   stepVars, dbVars, pool, ucache>>

\* { std::unique_lock lock(mutex_); active_requests_.emplace(request_id, ...); }
\* emplace has no effect if the key is present.
StartEmplace(t) ==
    /\ tracker.pc[t] = "have_id"
    /\ tracker' = [tracker EXCEPT !.active_requests_ = @ \cup {tracker.id[t]},
                                  !.pc[t] = "emplaced"]
    /\ UNCHANGED <<envVars, supported, initRuns, genVars, valVars, raceVars, flagVars,
                   stepVars, dbVars, pool, ucache>>

\* active_count_.fetch_add(1, std::memory_order_relaxed); return request_id;
StartCount(t) ==
    /\ tracker.pc[t] = "emplaced"
    /\ tracker' = [tracker EXCEPT !.active_count_ = WordAdd(@, WordOne),
                                  !.started[t] = Append(@, tracker.id[t]),
                                  !.pc[t] = "idle"]
    /\ UNCHANGED <<envVars, supported, initRuns, genVars, valVars, raceVars, flagVars,
                   stepVars, dbVars, pool, ucache>>

\* What complete_request(id, status) leaves behind: nothing changes unless
\* find(id) succeeds; then the entry is erased, active_count_ goes down by
\* one (modulo 2^64) and completed_count_ up by one.
complete_request(tr, id) ==
    IF id \in tr.active_requests_
    THEN [tr EXCEPT !.active_requests_ = @ \ {id},
                    !.active_count_ = WordAdd(@, WordOnes),
                    !.completed_count_ = WordAdd(@, WordOne)]
    ELSE tr

\* A thread outside start_request calls complete_request with an id that a
\* start_request returned to it, or with an id it never obtained.
CompleteRequest(t) ==
    /\ tracker.pc[t] = "idle"
    /\ Len(tracker.completions) < MaxCompletes
    /\ \E id \in {tracker.started[t][k] : k \in 1..Len(tracker.started[t])} \cup {UnknownId} :
          tracker' = [complete_request(tracker, id) EXCEPT
                         !.completions =
                             Append(@, <<id, id \in tracker.active_requests_>>)]
    /\ UNCHANGED <<envVars, supported, initRuns, genVars, valVars, raceVars, flagVars,
                   stepVars, dbVars, pool, ucache>>

InitTracker == Init /\ (\A f \in Features : ~cpu[f] /\ ~build[f])

NextTracker ==
    \E t \in Threads :
        \/ StartGenerateBegin(t)
        \/ StartGenerateEnd(t)
        \/ StartEmplace(t)
        \/ StartCount(t)
        \/ CompleteRequest(t)

SpecTracker == InitTracker /\ [][NextTracker]_vars

(***************************************************************************)
(* examples/example2.cpp: UuidPool.  Two threads call get(); the refill    *)
(* thread started by the constructor runs its loop; the owner runs the     *)
(* destructor once no thread is inside get().  pool.fresh[i] records that  *)
(* slot i was written since get() last returned it, pool.last[i] the value *)
(* get() last returned from slot i, pool.dup that a call returned from a   *)
(* slot the value the call before it returned from that slot, pool.stale   *)
(* that a slot was returned without having been rewritten.                 *)
(***************************************************************************)
\* The most calls of get().
MaxGets == 5

PoolVarsUnchanged ==
    UNCHANGED <<envVars, supported, initRuns, genVars, valVars, raceVars, flagVars,
                stepVars, dbVars, tracker, ucache>>

\* cv_.notify_one() / cv_.notify_all() with one possible waiter: a thread
\* blocked in cv_.wait is made ready; a notification with no thread blocked
\* is not remembered.
notify(p) == IF p.rpc = "waiting" THEN [p EXCEPT !.rpc = "woken"] ELSE p

\* get() has returned the value v that it loaded from pool_[i].
hand_out(p, i, v) ==
    [p EXCEPT !.dup = @ \/ v = p.last[i],
              !.stale = @ \/ ~p.fresh[i],
              !.last[i] = v,
              !.fresh[i] = FALSE]

\* size_t pos = position_.fetch_add(1, std::memory_order_acq_rel)
GetFetchAdd(t) ==
    /\ pool.gpc[t] = "idle"
    /\ pool.dpc = "alive"
    /\ pool.gets < MaxGets
    /\ pool' = [pool EXCEPT !.gpos[t] = pool.position_,
                            !.position_ = @ + 1,
                            !.gets = @ + 1,
                            !.gpc[t] = "have_pos"]
    /\ PoolVarsUnchanged

\* if (pos >= POOL_SIZE) { std::unique_lock lock(mutex_); cv_.notify_one();
GetOverflowLock(t) ==
    /\ pool.gpc[t] = "have_pos"
    /\ pool.gpos[t] >= POOL_SIZE
    /\ pool.mutex_ = "free"
    /\ pool' = [notify(pool) EXCEPT !.mutex_ = t, !.gpc[t] = "overflow_locked"]
    /\ PoolVarsUnchanged

\* return generator_(): the call reads the generator's state ...
GetOverflowGenerateBegin(t) ==
    /\ pool.gpc[t] = "overflow_locked"
    /\ pool' = [pool EXCEPT !.gseen[t] = pool.generated,
                            !.gpc[t] = "overflow_in_generator"]
    /\ PoolVarsUnchanged

\* ... writes it back and returns the value; the lock is released.
GetOverflowGenerateEnd(t) ==
    /\ pool.gpc[t] = "overflow_in_generator"
    /\ pool' = [pool EXCEPT
                    !.generated = pool.gseen[t] + 1,
                    !.mutex_ = "free",
                    !.gpc[t] = "idle"]
    /\ PoolVarsUnchanged

\* if (pos >= REFILL_THRESHOLD) cv_.notify_one();
GetNotify(t) ==
    /\ pool.gpc[t] = "have_pos"
    /\ pool.gpos[t] < POOL_SIZE
    /\ pool.gpos[t] >= REFILL_THRESHOLD
    /\ pool' = [notify(pool) EXCEPT !.gpc[t] = "notified"]
    /\ PoolVarsUnchanged

\* What a load of pool_[i] may deliver: the stored value, or, while the
\* refill thread is storing into the same slot (a data race on the 16
\* bytes), the old value, the new one, or halves of both.
slot_loads(p, i) ==
    IF p.rpc = "storing" /\ p.ri = i
    THEN {p.pool_[i], p.rnew, <<p.pool_[i][1], p.rnew[2]>>, <<p.rnew[1], p.pool_[i][2]>>}
    ELSE {p.pool_[i]}

\* return pool_[pos];
GetRead(t) ==
    /\ \/ pool.gpc[t] = "notified"
       \/ pool.gpc[t] = "have_pos" /\ pool.gpos[t] < REFILL_THRESHOLD
    /\ \E v \in slot_loads(pool, pool.gpos[t]) :
          pool' = [hand_out(pool, pool.gpos[t], v) EXCEPT !.gpc[t] = "idle"]
    /\ PoolVarsUnchanged

\* while (running_.load(std::memory_order_relaxed))
RefillTestRunning ==
    /\ pool.rpc = "while"
    /\ pool' = [pool EXCEPT !.rpc = IF pool.running_ THEN "lock" ELSE "exited"]
    /\ PoolVarsUnchanged

\* std::unique_lock lock(mutex_);
RefillLock ==
    /\ pool.rpc = "lock"
    /\ pool.mutex_ = "free"
    /\ pool' = [pool EXCEPT !.mutex_ = "refill", !.rpc = "pred"]
    /\ PoolVarsUnchanged

\* The predicate of cv_.wait(lock, ...), evaluated with the lock held.
wait_pred(p) == ~p.running_ \/ p.position_ >= REFILL_THRESHOLD

\* cv_.wait(lock, pred): if pred() holds, wait returns and the block's
\* closing brace releases the lock; otherwise the thread is about to block.
RefillWaitPred ==
    /\ pool.rpc = "pred"
    /\ pool' = IF wait_pred(pool)
               THEN [pool EXCEPT !.mutex_ = "free", !.rpc = "after_wait"]
               ELSE [pool EXCEPT !.rpc = "blocking"]
    /\ PoolVarsUnchanged

\* cv_.wait: the lock is released and the thread blocks, atomically.
RefillWaitBlock ==
    /\ pool.rpc = "blocking"
    /\ pool' = [pool EXCEPT !.mutex_ = "free", !.rpc = "waiting"]
    /\ PoolVarsUnchanged

\* A condition variable may wake a waiter without a notification.
RefillSpuriousWake ==
    /\ pool.rpc = "waiting"
    /\ pool' = [pool EXCEPT !.rpc = "woken"]
    /\ PoolVarsUnchanged

\* cv_.wait: the woken thread takes the lock again and re-evaluates pred().
RefillWaitReacquire ==
    /\ pool.rpc = "woken"
    /\ pool.mutex_ = "free"
    /\ pool' = [pool EXCEPT !.mutex_ = "refill", !.rpc = "pred"]
    /\ PoolVarsUnchanged

\* if (!running_.load(std::memory_order_relaxed)) break;
RefillCheckRunning ==
    /\ pool.rpc = "after_wait"
    /\ pool' = [pool EXCEPT !.rpc = IF pool.running_ THEN "load_pos" ELSE "exited"]
    /\ PoolVarsUnchanged

\* size_t pos = position_.load(std::memory_order_acquire);
\* if (pos >= REFILL_THRESHOLD) { refill_pool(0, pos); ...
RefillLoadPosition ==
    /\ pool.rpc = "load_pos"
    /\ pool' = [pool EXCEPT !.rpos = pool.position_,
                            !.ri = 0,
                            !.rpc = IF pool.position_ >= REFILL_THRESHOLD
                                    THEN "refill_pool" ELSE "while"]
    /\ PoolVarsUnchanged

\* The loop condition of refill_pool(start, end): i < end && i < POOL_SIZE
refill_more(p) == p.ri < p.rpos /\ p.ri < POOL_SIZE

\* pool_[i] = generator_(): the call reads the generator's state ...
RefillGenerateBegin ==
    /\ pool.rpc = "refill_pool"
    /\ refill_more(pool)
    /\ pool' = [pool EXCEPT !.rseen = pool.generated, !.rpc = "in_generator"]
    /\ PoolVarsUnchanged

\* ... writes it back and returns the value, whose store into pool_[i] begins.
RefillGenerateEnd ==
    /\ pool.rpc = "in_generator"
    /\ pool' = [pool EXCEPT !.generated = pool.rseen + 1,
                            !.rnew = PoolValue(pool.rseen + 1),
                            !.rpc = "storing"]
    /\ PoolVarsUnchanged

\* The store into pool_[i] is complete; ++i.
RefillStore ==
    /\ pool.rpc = "storing"
    /\ pool' = [pool EXCEPT !.pool_[pool.ri] = pool.rnew,
                            !.fresh[pool.ri] = TRUE,
                            !.ri = @ + 1,
                            !.rpc = "refill_pool"]
    /\ PoolVarsUnchanged

\* refill_pool has returned: position_.store(0, std::memory_order_release);
RefillStorePosition ==
    /\ pool.rpc = "refill_pool"
    /\ ~refill_more(pool)
    /\ pool' = [pool EXCEPT !.position_ = 0, !.rpc = "while"]
    /\ PoolVarsUnchanged

\* ~UuidPool(): running_.store(false, std::memory_order_relaxed);
DtorStoreRunning ==
    /\ pool.dpc = "alive"
    /\ \A t \in Threads : pool.gpc[t] = "idle"
    /\ pool' = [pool EXCEPT !.running_ = FALSE, !.dpc = "stored"]
    /\ PoolVarsUnchanged

\* cv_.notify_all();
DtorNotifyAll ==
    /\ pool.dpc = "stored"
    /\ pool' = [notify(pool) EXCEPT !.dpc = "notified"]
    /\ PoolVarsUnchanged

\* if (refill_thread_.joinable()) refill_thread_.join(): returns once the
\* refill thread's function has returned.
DtorJoin ==
    /\ pool.dpc = "notified"
    /\ pool.rpc = "exited"
    /\ pool' = [pool EXCEPT !.dpc = "joined"]
    /\ PoolVarsUnchanged

InitPool == Init /\ (\A f \in Features : ~cpu[f] /\ ~build[f])

\* The steps that the scheduler and the library guarantee to happen.
NextPoolProgress ==
    \/ \E t \in Threads :
          \/ GetFetchAdd(t)
          \/ GetOverflowLock(t)
          \/ GetOverflowGenerateBegin(t)
          \/ GetOverflowGenerateEnd(t)
          \/ GetNotify(t)
          \/ GetRead(t)
    \/ RefillTestRunning
    \/ RefillLock
    \/ RefillWaitPred
    \/ RefillWaitBlock
    \/ RefillWaitReacquire
    \/ RefillCheckRunning
    \/ RefillLoadPosition
    \/ RefillGenerateBegin
    \/ RefillGenerateEnd
    \/ RefillStore
    \/ RefillStorePosition
    \/ DtorStoreRunning
    \/ DtorNotifyAll
    \/ DtorJoin

NextPool == NextPoolProgress \/ RefillSpuriousWake

SpecPool == InitPool /\ [][NextPool]_vars

\* Every step but the spurious wakeup, which no implementation promises,
\* is taken if it stays possible.
SpecPoolFair == SpecPool /\ WF_vars(NextPoolProgress)

(***************************************************************************)
(* examples/example3.cpp: UuidCache.  An entry of entries_ is written      *)
(* <<uuid, value, expiry, has_on_expire>>, an element of lru_list_         *)
(* <<node, uuid>> with the front of the list first, and an entry of        *)
(* records_ <<uuid, expiry, node>>, where node names the list node that    *)
(* the stored iterator lru_it points to.  Time is steady_clock::now() in   *)
(* ticks.  insert calls generator_() and reads the clock before it takes   *)
(* mutex_; everything else in insert, get, remove and cleanup_expired runs *)
(* under mutex_ and is one step.  ucache.used lists the keys from the most *)
(* to the least recently inserted or successfully read, ucache.fired the   *)
(* entries whose on_expire callback has run, ucache.last the last call     *)
(* that returned.                                                          *)
(***************************************************************************)
\* The most calls of insert, get, remove and cleanup_expired.
MaxCacheCalls == 5

\* The latest reading of the clock.
MaxNow == 1

\* The capacities a cache is constructed with.
CacheSizes == {1, 2}

\* The arguments <<ttl, has on_expire>> of insert: a value that expires at
\* the next tick, with a callback, and values that outlive the clock, with
\* and without one.
InsertArgs == {<<0, TRUE>>, <<4, TRUE>>, <<4, FALSE>>}

\* A list node that is not in use.
new_node(c) ==
    CHOOSE n \in 1..(Len(c.lru_list_) + 1) :
        \A k \in 1..Len(c.lru_list_) : c.lru_list_[k][1] # n

CacheVarsUnchanged ==
    UNCHANGED <<envVars, supported, initRuns, genVars, valVars, raceVars, flagVars,
                stepVars, dbVars, tracker, pool>>

\* The keys of a set of entries or records.
KeysOf(S) == {e[1] : e \in S}

\* The sequence q without its elements that satisfy Drop.
Without(q, Drop(_)) == SelectSeq(q, LAMBDA x : ~Drop(x))

\* remove_locked without the erase of the list node.
remove_locked_keeps_node(c, uuid) ==
    IF uuid \notin KeysOf(c.entries_)
    THEN c
    ELSE LET e == CHOOSE x \in c.entries_ : x[1] = uuid
         IN  [c EXCEPT
                !.fired = IF e[4] THEN Append(@, <<e[1], e[2]>>) ELSE @,
                !.records_ = {r \in @ : r[1] # uuid},
                !.entries_ = @ \ {e},
                !.used = Without(@, LAMBDA k : k = uuid)]

\* remove_locked(uuid) == FALSE: entries_.find(uuid) fails.
\* Otherwise the callback runs if there is one, the list node that the
\* record's lru_it points to and the record are erased if there is a
\* record, and the entry is erased.
remove_locked(c, uuid) ==
    IF uuid \notin KeysOf(c.entries_)
    THEN c
    ELSE LET e  == CHOOSE x \in c.entries_ : x[1] = uuid
             rs == {r \in c.records_ : r[1] = uuid}
         IN  [c EXCEPT
                !.fired = IF e[4] THEN Append(@, <<e[1], e[2]>>) ELSE @,
                !.lru_list_ = Without(@, LAMBDA n : \E r \in rs : r[3] = n[1]),
                !.records_ = @ \ rs,
                !.entries_ = @ \ {e},
                !.used = Without(@, LAMBDA k : k = uuid)]

\* An eviction that takes the front of the list.
evict_newest(c) ==
    IF c.lru_list_ = <<>> THEN c
    ELSE remove_locked(c, c.lru_list_[1][2])

\* evict_oldest(): remove_locked(lru_list_.back()), nothing on an empty list.
evict_oldest(c) ==
    IF c.lru_list_ = <<>> THEN c
    ELSE remove_locked(c, c.lru_list_[Len(c.lru_list_)][2])

\* explicit UuidCache(size_t max_size, duration default_ttl)
CacheConstruct ==
    /\ ~ucache.built
    /\ \E m \in CacheSizes : ucache' = [ucache EXCEPT !.built = TRUE, !.max_size_ = m]
    /\ CacheVarsUnchanged

\* The clock advances.
CacheTick ==
    /\ ucache.built /\ ~ucache.crashed
    /\ ucache.now < MaxNow
    /\ ucache' = [ucache EXCEPT !.now = @ + 1]
    /\ CacheVarsUnchanged

\* A call may begin.
cache_call_may_begin(t) ==
    /\ ucache.built /\ ~ucache.crashed
    /\ ucache.pc[t] = "idle"
    /\ ucache.calls < MaxCacheCalls

\* insert(value, ttl, on_expire), the value being the number of the call:
\* auto uuid = generator_() reads the generator's state ...
CacheInsertGenerateBegin(t) ==
    /\ cache_call_may_begin(t)
    /\ ucache.generated < Len(DbIds)
    /\ ucache' = [ucache EXCEPT !.seen[t] = ucache.generated,
                                !.calls = @ + 1,
                                !.arg[t] = <<ucache.calls + 1>>,
                                !.pc[t] = "in_generator"]
    /\ CacheVarsUnchanged

\* ... and writes it back; auto expiry = clock_type::now() + actual_ttl.
\* arg[t] holds the entry to be stored.
CacheInsertGenerateEnd(t) ==
    /\ ucache.pc[t] = "in_generator" /\ ~ucache.crashed
    /\ \E a \in InsertArgs :
          ucache' = [ucache EXCEPT
                        !.generated = ucache.seen[t] + 1,
                        !.arg[t] = <<DbIds[ucache.seen[t] + 1], ucache.arg[t][1],
                                     ucache.now + a[1], a[2]>>,
                        !.pc[t] = "have_uuid"]
    /\ CacheVarsUnchanged

\* The rest of insert, under mutex_: evict if full, then the two emplaces
\* (without effect if the key is present) and the insertion at the front of
\* lru_list_.
insert_locked(c, e) ==
    LET c1 == IF Cardinality(c.entries_) >= c.max_size_ THEN evict_oldest(c) ELSE c
        node == new_node(c1)
    IN  [c1 EXCEPT
            !.entries_ = IF e[1] \in KeysOf(@) THEN @ ELSE @ \cup {e},
            !.lru_list_ = <<<<node, e[1]>>>> \o @,
            !.records_ = IF e[1] \in KeysOf(@) THEN @ ELSE @ \cup {<<e[1], e[3], node>>},
            !.used = <<e[1]>> \o Without(@, LAMBDA k : k = e[1])]

CacheInsertLocked(t) ==
    /\ ucache.pc[t] = "have_uuid" /\ ~ucache.crashed
    /\ ucache' = [insert_locked(ucache, ucache.arg[t]) EXCEPT
                     !.last = [op |-> "insert", id |-> ucache.arg[t][1],
                               result |-> ucache.arg[t][1]],
                     !.pc[t] = "idle"]
    /\ CacheVarsUnchanged

\* The uuids a caller may pass: one that is stored, and one that is not.
CacheArgs == KeysOf(ucache.entries_) \cup {UnknownId}

\* get(uuid) under mutex_: nullopt if absent; if expired, remove_locked and
\* nullopt; otherwise the list node is erased, a new one is inserted at the
\* front, the record's lru_it is set to it and the value is returned.
get_locked(c, uuid) ==
    IF uuid \notin KeysOf(c.entries_)
    THEN [c EXCEPT !.last = [op |-> "get", id |-> uuid, result |-> <<"nullopt">>]]
    ELSE LET e == CHOOSE x \in c.entries_ : x[1] = uuid
             r == CHOOSE x \in c.records_ : x[1] = uuid
             node == new_node(c)
         IN  IF c.now > e[3]
             THEN [remove_locked(c, uuid) EXCEPT
                      !.last = [op |-> "get", id |-> uuid, result |-> <<"nullopt">>]]
             ELSE [c EXCEPT
                      !.lru_list_ = <<<<node, uuid>>>> \o Without(@, LAMBDA n : n[1] = r[3]),
                      !.records_ = (@ \ {r}) \cup {<<uuid, r[2], node>>},
                                !.used = <<uuid>> \o Without(@, LAMBDA k : k = uuid),
                      !.last = [op |-> "get", id |-> uuid, result |-> <<"value", e[2]>>]]

CacheGet(t) ==
    /\ cache_call_may_begin(t)
    /\ \E uuid \in CacheArgs :
          ucache' = [get_locked(ucache, uuid) EXCEPT !.calls = @ + 1]
    /\ CacheVarsUnchanged

\* remove(uuid): remove_locked under mutex_.
CacheRemove(t) ==
    /\ cache_call_may_begin(t)
    /\ \E uuid \in CacheArgs :
          ucache' = [remove_locked(ucache, uuid) EXCEPT
                        !.calls = @ + 1,
                        !.last = [op |-> "remove", id |-> uuid,
                                  result |-> <<uuid \in KeysOf(ucache.entries_)>>]]
    /\ CacheVarsUnchanged

\* The loop of cleanup_expired over the list as it was on entry, from
\* snap[k] towards the front.  An element whose record has expiry < now is
\* removed with remove_locked after ++it has made the reverse iterator's
\* base point at that element's node; if remove_locked erases that very
\* node, the next use of the iterator reads freed memory.  budget counts
\* the times this read still finds the node's links intact: when it is
\* used up the process dies.
RECURSIVE cleanup_walk(_, _, _, _)
cleanup_walk(c, snap, k, budget) ==
    IF k = 0 THEN c
    ELSE LET node == snap[k][1]
             uuid == snap[k][2]
             rs   == {r \in c.records_ : r[1] = uuid /\ r[2] < c.now}
         IN  IF (\A n \in 1..Len(c.lru_list_) : c.lru_list_[n][1] # node) \/ rs = {}
             THEN cleanup_walk(c, snap, k - 1, budget)
             ELSE LET dangling == \E r \in rs : r[3] = node
                      c1 == remove_locked(c, uuid)
                  IN  IF dangling /\ budget = 0
                      THEN [c1 EXCEPT !.crashed = TRUE]
                      ELSE cleanup_walk(c1, snap, k - 1,
                                        IF dangling THEN budget - 1 ELSE budget)

\* cleanup_expired() under mutex_.
CacheCleanupExpired(t) ==
    /\ cache_call_may_begin(t)
    /\ \E budget \in 0..Len(ucache.lru_list_) :
          \E c \in {cleanup_walk(ucache, ucache.lru_list_, Len(ucache.lru_list_), budget)} :
             ucache' = [c EXCEPT
                           !.calls = @ + 1,
                           !.last = [op |-> "cleanup_expired", id |-> <<>>,
                                     result |-> <<Cardinality(ucache.entries_)
                                                    - Cardinality(c.entries_)>>]]
    /\ CacheVarsUnchanged

InitCache == Init /\ (\A f \in Features : ~cpu[f] /\ ~build[f])

\* What a thread may do next.
CacheCall(t) ==
    \/ CacheInsertGenerateBegin(t)
    \/ CacheInsertGenerateEnd(t)
    \/ CacheInsertLocked(t)
    \/ CacheGet(t)
    \/ CacheRemove(t)
    \/ CacheCleanupExpired(t)

\* One thread makes the calls one after another, as demonstrate_uuid_cache does.
NextCache ==
    \/ CacheConstruct
    \/ CacheTick
    \/ CacheCall("t1")

SpecCache == InitCache /\ [][NextCache]_vars

\* Two threads make the calls.
NextCacheShared ==
    \/ CacheConstruct
    \/ CacheTick
    \/ \E t \in Threads : CacheCall(t)

SpecCacheShared == InitCache /\ [][NextCacheShared]_vars

(***************************************************************************)
(* Claims about the generator.                                             *)
(***************************************************************************)
Returned(g) == 1..Len(out[g])

\* (b & 0xF0) == 0x40
IsVersion4(b) == b \div 16 = 4

\* (b & 0xC0) == 0x80
IsVariant1(b) == b \div 64 = 2

\* C1: every value a call of operator() returned, on every path, has the
\* version nibble 0100 in byte 6 and the variant bits 10 in byte 8.
C1_LayoutOfEveryValue ==
    \A g \in Gens : \A i \in Returned(g) :
        IsVersion4(out[g][i].uuid[7]) /\ IsVariant1(out[g][i].uuid[9])

\* A mixed hardware value and a fallback value were returned, and the bytes
\* of the hardware value did not have the layout before finalization.
C1_Witness ==
    \E i, j \in Returned("g1") :
        /\ out["g1"][i].path = "fallback"
        /\ out["g1"][j].path \in {"rdrand", "rdseed"}
        /\ out["g1"][j].mixed
        /\ ~IsVersion4(out["g1"][j].raw[7])
        /\ ~IsVariant1(out["g1"][j].raw[9])

\* C4: two generators constructed with the same explicit seed on a processor
\* without RDRAND and RDSEED return the same value at every position both
\* have reached.
C4_SameSeedSameSequence ==
    (/\ ~cpu["RDRND"] /\ ~cpu["RDSEED"]
     /\ gen["g1"].constructed /\ gen["g1"].seeded
     /\ gen["g2"].constructed /\ gen["g2"].seeded
     /\ gen["g1"].seed = gen["g2"].seed)
    => \A n \in Returned("g1") \cap Returned("g2") :
          out["g1"][n].uuid = out["g2"][n].uuid

\* Both generators, equally seeded and without hardware entropy, have each
\* returned two values on the software path.
C4_Witness ==
    /\ ~cpu["RDRND"] /\ ~cpu["RDSEED"]
    /\ gen["g1"].seeded /\ gen["g2"].seeded
    /\ gen["g1"].seed = gen["g2"].seed
    /\ Len(out["g1"]) = 2 /\ Len(out["g2"]) = 2
    /\ out["g1"][2].path = "sw"
    /\ out["g1"][2].uuid = out["g2"][2].uuid
    /\ out["g1"][1].uuid # out["g1"][2].uuid

IsUuid(u) == Len(u) = 16 /\ \A p \in 1..16 : u[p] \in Byte

\* C5: no call of operator() fails: the process never faults, every call
\* that was made returned 16 bytes, and a call whose hardware draws all
\* failed returned exactly what the software path returns from the engine
\* state the call found.
C5_NoFailureOutcome ==
    /\ ~fault
    /\ \A g \in Gens : \A i \in Returned(g) :
          /\ IsUuid(out[g][i].uuid)
          /\ out[g][i].path \in {"sw", "fallback", "rdrand", "rdseed"}
          /\ out[g][i].path = "fallback"
                => out[g][i].uuid = generate_sw(out[g][i].before).uuid

\* RDRAND, RDSEED and AES are all present and compiled in, and a call whose
\* four hardware draws were all zero has returned a value.
C5_Witness ==
    /\ \A f \in Features : cpu[f] /\ build[f]
    /\ \E i \in Returned("g1") :
          /\ out["g1"][i].path = "fallback"
          /\ out["g1"][i].rdrand = 2 /\ out["g1"][i].rdseed = 2

\* The 122 bits finalization leaves alone: all of a and b but the version
\* nibble of byte 6 and the two variant bits of byte 8.
SameFreeBits(a, b) ==
    /\ \A p \in (1..16) \ {7, 9} : a[p] = b[p]
    /\ a[7] % 16 = b[7] % 16
    /\ a[9] % 64 = b[9] % 64

HyphenAt == {8, 13, 18, 23}

LowerHexDigits == {"0", "1", "2", "3", "4", "5", "6", "7", "8", "9",
                   "a", "b", "c", "d", "e", "f"}

\* The lowercase hexadecimal digit of n in 0..15.
LowerHex(n) ==
    CASE n = 0 -> "0" [] n = 1 -> "1" [] n = 2 -> "2" [] n = 3 -> "3"
      [] n = 4 -> "4" [] n = 5 -> "5" [] n = 6 -> "6" [] n = 7 -> "7"
      [] n = 8 -> "8" [] n = 9 -> "9" [] n = 10 -> "a" [] n = 11 -> "b"
      [] n = 12 -> "c" [] n = 13 -> "d" [] n = 14 -> "e" [] n = 15 -> "f"

\* text is the canonical rendering of data: 36 characters, hyphens exactly at
\* HyphenAt, and the k-th other character the high (k even) or low (k odd)
\* nibble of byte k \div 2.
IsCanonical(text, data) ==
    /\ Len(text) = 36
    /\ \A p \in 0..35 :
          IF p \in HyphenAt
          THEN text[p + 1] = "-"
          ELSE LET k == p - Cardinality({h \in HyphenAt : h < p})
                   n == IF k % 2 = 0 THEN data[(k \div 2) + 1] \div 16
                                     ELSE data[(k \div 2) + 1] % 16
               IN  text[p + 1] \in LowerHexDigits /\ text[p + 1] = LowerHex(n)

\* C2: the string str() returned for a value is the canonical rendering of
\* its bytes, and two values that exist with different bytes render to
\* different strings.
C2_StrIsCanonical ==
    /\ obs.op = "str" => IsCanonical(obs.result, DataOf(obs.a))
    /\ \A a, b \in Values :
          DataOf(a) # DataOf(b) => str(DataOf(a)) # str(DataOf(b))

\* str() has rendered 0123456789abcdeffedcba9876543210, which has every
\* digit in a high and in a low nibble.
C2_Witness ==
    /\ obs.op = "str"
    /\ obs.a[1] = "made"
    /\ DataOf(obs.a) = BufDigits
    /\ obs.result[1] = "0" /\ obs.result[2] = "1" /\ obs.result[36] = "0"

\* a precedes b in unsigned lexicographic order of bytes 0..15.
LexLess(a, b) ==
    \E k \in 1..16 : a[k] < b[k] /\ \A m \in 1..(k - 1) : a[m] = b[m]

\* C3: a comparison of two values yields exactly one of less, equal and
\* greater; equal exactly when all 16 bytes are equal and less exactly when
\* the first operand precedes the second in unsigned lexicographic order.
C3_TotalOrderOnBytes ==
    obs.op = "compare" =>
        /\ obs.result \in {"less", "equal", "greater"}
        /\ obs.result = "equal" <=> DataOf(obs.a) = DataOf(obs.b)
        /\ obs.result = "less" <=> LexLess(DataOf(obs.a), DataOf(obs.b))
        /\ obs.result = "greater" <=> LexLess(DataOf(obs.b), DataOf(obs.a))

\* C7: no step changes the bytes of a value that exists, so a generated
\* value keeps its version and variant bits, and str() called again on the
\* value it was last called on returns the same string.
C7_ValuesNeverChange ==
    [][/\ \A o \in Values :
             /\ o \in Values'
             /\ DataOf(o)' = DataOf(o)
             /\ o[1] # "made" =>
                   IsVersion4(DataOf(o)'[7]) /\ IsVariant1(DataOf(o)'[9])
       /\ (obs.op = "str" /\ obs'.op = "str" /\ obs'.a = obs.a)
             => obs'.result = obs.result]_vars

\* A generated value has been rendered and still has its layout.
C7_Witness ==
    /\ obs.op = "str"
    /\ obs.a[1] = "g1"
    /\ IsVersion4(DataOf(obs.a)[7]) /\ IsVariant1(DataOf(obs.a)[9])
    /\ IsCanonical(obs.result, out["g1"][obs.a[2]].uuid)

\* C8: a value constructed from a buffer holds the buffer's bytes, whatever
\* they are, and bytes() and span() return them.
C8_ConstructionCopiesVerbatim ==
    /\ \A k \in 1..Len(made) : made[k].data_ = made[k].src
    /\ (obs.op \in {"bytes", "span"} /\ obs.a[1] = "made")
          => obs.result = made[obs.a[2]].src

\* bytes() has returned the bytes of a value constructed from a buffer that
\* has neither the version nibble nor the variant bits.
C8_Witness ==
    /\ obs.op = "bytes"
    /\ obs.a[1] = "made"
    /\ obs.result = BufOnes
    /\ ~IsVersion4(obs.result[7]) /\ ~IsVariant1(obs.result[9])

(***************************************************************************)
(* Claims about threads.                                                   *)
(***************************************************************************)
\* The engine state n completed software-path calls leave behind.
RECURSIVE StateAfter(_, _)
StateAfter(seed, n) ==
    IF n = 0 THEN xorshift128plus(seed) ELSE generate_sw(StateAfter(seed, n - 1)).rng

\* C9: when each thread owns its generator, or the calls on the shared one
\* are made under the mutex, no two threads are inside a call on the same
\* generator, and every call found the engine state the completed calls
\* before it left behind and returned the value computed from that state.
\* (That unsynchronized calls on a shared generator can interleave and
\* return equal values is the reachable state C9_Witness.)
C9_SerializedCallsSeeCompletedState ==
    mode \in {"own", "locked"} =>
        /\ \A t, u \in Threads :
              (t # u /\ tpc[t] # 0 /\ tpc[u] # 0) => treg[t].g # treg[u].g
        /\ \A g \in Gens : \A i \in Returned(g) :
              /\ out[g][i].before = StateAfter(gen[g].seed, i - 1)
              /\ out[g][i].uuid = generate_sw(out[g][i].before).uuid

\* Two threads shared one generator with no lock, both loaded the same
\* engine state, and their calls returned the same value.
C9_Witness ==
    /\ mode = "shared"
    /\ Len(rets["t1"]) = 1 /\ Len(rets["t2"]) = 1
    /\ rets["t1"][1] = rets["t2"][1]
    /\ out["g1"][1].before = out["g1"][2].before

\* C10: the initializer of each capability flag runs at most once; every
\* answer a query returned is the processor's answer for that feature, so
\* all answers for one feature agree; an initialized flag holds that answer;
\* and a step of a query changes nothing but the flag it is about.
C10_FlagsComputedOnceAndCached ==
    [][/\ \A f \in Features :
             /\ initRuns'[f] <= 1
             /\ supported'[f].guard = "done" =>
                   initRuns'[f] = 1 /\ supported'[f].value = cpu[f]
             /\ supported'[f] # supported[f] =>
                   \E t \in Threads : fpc[t].f = f \/ fpc'[t].f = f
       /\ \A t \in Threads : \A i \in 1..Len(fret'[t]) :
             fret'[t][i][2] = cpu[fret'[t][i][1]]
       /\ UNCHANGED <<cpu, build, gen, out, fault, made, obs>>]_vars

\* One thread's query ran the initializer of a feature the processor has
\* while the other thread asked too, and both got the same answer.
C10_Witness ==
    \E f \in Features :
        /\ cpu[f]
        /\ initRuns[f] = 1
        /\ \E i \in 1..Len(fret["t1"]) : fret["t1"][i] = <<f, TRUE>>
        /\ \E j \in 1..Len(fret["t2"]) : fret["t2"][j] = <<f, TRUE>>

(***************************************************************************)
(* Claims about the paths of one call.                                     *)
(***************************************************************************)
\* C12: the generator's preference for hardware is, from construction on,
\* (RDRAND available or RDSEED available), and no step changes it once the
\* generator is constructed, whatever path its calls took.
C12_PreferHardwareFixedAtConstruction ==
    [][\A g \in Gens :
          /\ gen'[g].constructed =>
                gen'[g].use_hw_rng_ = (cpu["RDRND"] \/ cpu["RDSEED"])
          /\ gen[g].constructed =>
                gen'[g].use_hw_rng_ = gen[g].use_hw_rng_]_vars

\* A generator that prefers hardware still does after a call whose hardware
\* draws failed and that fell back to the engine.
C12_Witness ==
    /\ gen["g1"].use_hw_rng_
    /\ \E i \in Returned("g1") : out["g1"][i].path = "fallback"

\* Both words of every pair the call drew are zero.
AllPairsZero(tried) ==
    \A k \in 1..Len(tried) : tried[k][2] = WordZero /\ tried[k][3] = WordZero

\* C14: on a processor with RDRAND or RDSEED, where generators prefer
\* hardware, a call returns the software path's value exactly when every
\* pair it drew was all zero, and the call after such a call draws from the
\* hardware again.
C14_FallbackIsPerCall ==
    \A g \in Gens : \A i \in Returned(g) :
        (cpu["RDRND"] \/ cpu["RDSEED"]) =>
          /\ Len(out[g][i].tried) >= 1
          /\ AllPairsZero(out[g][i].tried) <=> out[g][i].path = "fallback"
          /\ out[g][i].path = "fallback" =>
                /\ out[g][i].uuid = stamp(copy_pair(
                       xorshift_result(out[g][i].before),
                       xorshift_result(xorshift_next(out[g][i].before))))
                /\ (i + 1) \in Returned(g) =>
                      /\ Len(out[g][i + 1].tried) >= 1
                      /\ out[g][i + 1].path # "sw"

\* A call fell back to the engine and the next call returned a value made
\* of RDRAND words.
C14_Witness ==
    /\ Len(out["g1"]) = 2
    /\ out["g1"][1].path = "fallback"
    /\ out["g1"][2].path = "rdrand"

\* The fixed key: 0x9e3779b9 in the low quadword, 0x1b873593 in the high.
WhiteningKey ==
    <<185, 121, 55, 158, 0, 0, 0, 0, 147, 53, 135, 27, 0, 0, 0, 0>>

\* What a call returned, given whether whitening is to be expected of it.
WhitenedExactlyWhen(r, aesAvailable) ==
    IF r.path \in {"rdrand", "rdseed"}
    THEN /\ r.mixed = aesAvailable
         /\ r.aes = (IF aesAvailable THEN 1 ELSE 0)
         /\ r.raw = (IF aesAvailable THEN mm_aesenc_si128(r.hw, WhiteningKey) ELSE r.hw)
         /\ r.uuid = stamp(r.raw)
    ELSE /\ ~r.mixed
         /\ r.aes = 0
         /\ r.raw = copy_pair(xorshift_result(r.before),
                              xorshift_result(xorshift_next(r.before)))
         /\ r.uuid = stamp(r.raw)

\* C15 as claimed: the bytes are whitened exactly when the processor has AES
\* and the call obtained a usable hardware pair.
C15_WhitenedWheneverAesDetected ==
    \A g \in Gens : \A i \in Returned(g) :
        WhitenedExactlyWhen(out[g][i], cpu["AES"])

\* C15 as amended: the bytes are whitened exactly when the processor has
\* AES, the build has AES compiled in, and the call obtained a usable
\* hardware pair: then they pass through one encryption round with the fixed
\* key before they are stamped; engine bytes are never whitened, and
\* hardware bytes that are not whitened are stamped as drawn.
C15_WhitenedWhenDetectedAndCompiledIn ==
    \A g \in Gens : \A i \in Returned(g) :
        WhitenedExactlyWhen(out[g][i], cpu["AES"] /\ build["AES"])

\* A usable RDRAND pair was whitened, and whitening changed it.
C15_Witness ==
    \E i \in Returned("g1") :
        /\ out["g1"][i].path = "rdrand"
        /\ out["g1"][i].mixed
        /\ out["g1"][i].raw # out["g1"][i].hw
        /\ out["g1"][i].uuid = stamp(out["g1"][i].raw)

\* C16: a call that returns a value made of hardware words leaves every
\* member of the generator as it was, and a call that takes the software
\* path (chosen at construction, or fallen back to) leaves the engine two
\* draws further, which is one generation, and changes nothing else.
C16_HardwareCallsLeaveEngineAlone ==
    [][\A g \in Gens :
          Len(out'[g]) = Len(out[g]) + 1 =>
             LET r == out'[g][Len(out'[g])]
             IN  /\ r.before = gen[g].rng_
                 /\ r.path \in {"rdrand", "rdseed"} => gen'[g] = gen[g]
                 /\ r.path \in {"sw", "fallback"} =>
                       /\ r.draws = 2
                       /\ gen'[g] = [gen[g] EXCEPT
                             !.rng_ = xorshift_next(xorshift_next(gen[g].rng_))]]_vars

\* Two hardware-path calls have returned and the engine is still in the
\* state the seed gave it.
C16_Witness ==
    /\ Len(out["g1"]) = 2
    /\ out["g1"][1].path \in {"rdrand", "rdseed"}
    /\ out["g1"][2].path \in {"rdrand", "rdseed"}
    /\ gen["g1"].rng_ = xorshift128plus(gen["g1"].seed)

(***************************************************************************)
(* Claims about the statements of one call.                                *)
(***************************************************************************)
\* The RDRAND block of the call is over.
PastRdrand ==
    run.pc \notin {"idle", "ready", "hw_rdrand", "rdrand_v1", "rdrand_v2", "rdrand_test"}

\* C13: RDRAND is drawn only if it is available, and then twice, before
\* anything else is drawn; its pair is accepted unless both words are zero;
\* RDSEED is drawn only if it is available and RDRAND either is unavailable
\* or has delivered two zero words; after an accepted RDRAND pair RDSEED is
\* not drawn and data holds the RDRAND pair.
C13_RdrandFirstThenRdseed ==
    /\ run.rdrand > 0 => cpu["RDRND"] /\ run.use_hw_rng_
    /\ (run.use_hw_rng_ /\ cpu["RDRND"] /\ run.rdrand < 2) =>
          run.rdseed = 0 /\ run.draws = 0 /\ run.aes = 0
    /\ (run.use_hw_rng_ /\ cpu["RDRND"] /\ PastRdrand) =>
          /\ run.rdrand = 2
          /\ (run.r1 # "zero" \/ run.r2 # "zero") =>
                /\ run.used_hw_rng
                /\ run.rdseed = 0
                /\ run.pc \in {"hw_rdseed", "hw_used", "hw_aes"} =>
                      run.data = [p \in 0..15 |->
                         IF p < 8 THEN <<"RDRND", 1, p>> ELSE <<"RDRND", 2, p - 8>>]
    /\ run.rdseed > 0 =>
          /\ cpu["RDSEED"]
          /\ cpu["RDRND"] => run.rdrand = 2 /\ run.r1 = "zero" /\ run.r2 = "zero"
    /\ (run.use_hw_rng_ /\ run.pc \in {"hw_used", "hw_aes", "sw"}
           /\ cpu["RDSEED"] /\ ~(cpu["RDRND"] /\ (run.r1 # "zero" \/ run.r2 # "zero"))) =>
          run.rdseed = 2

\* RDRAND delivered two zero words, RDSEED was drawn next and delivered a
\* pair with one zero word, which the call returned.
C13_Witness ==
    /\ run.pc = "done"
    /\ run.rdrand = 2 /\ run.r1 = "zero" /\ run.r2 = "zero"
    /\ run.rdseed = 2 /\ run.s1 = "zero" /\ run.s2 = "nonzero"
    /\ run.used_hw_rng
    /\ run.draws = 0

\* The draws that fill 16 bytes w at a time.
DrawsToFill(w) == (16 + w - 1) \div w

\* Byte p of the buffer comes from draw p / w, of which it is byte p % w.
InDrawOrder(data, p, w) == data[p] = <<"rng", p \div w, p % w>>

\* C17: on the software path an 8-byte engine is drawn exactly twice, the
\* first draw filling bytes 0..7 and the second bytes 8..15; an engine of
\* another width w has, when the loop's index is i, been drawn i / w times
\* and the k-th draw lies at offset k * w; when stamping begins the engine
\* has been drawn until 16 bytes were filled and the buffer holds the draws
\* in draw order.
C17_SoftwareFillInDrawOrder ==
    /\ run.pc \in {"loop", "loop_body"} =>
          /\ run.w # 8
          /\ run.i = run.draws * run.w
          /\ \A p \in 0..15 : p < run.i => InDrawOrder(run.data, p, run.w)
          /\ \A p \in 0..15 : p >= run.i => run.data[p] = <<"zero">>
    /\ (run.pc = "stamp" /\ ~run.used_hw_rng) =>
          /\ run.draws = DrawsToFill(run.w)
          /\ run.w = 8 => run.draws = 2
          /\ \A p \in 0..15 : InDrawOrder(run.data, p, run.w)

\* A four-byte engine has been drawn four times and the buffer is about to
\* be stamped.
C17_Witness ==
    /\ run.pc = "stamp"
    /\ run.w = 4
    /\ run.draws = 4
    /\ run.data[12] = <<"rng", 3, 0>>

\* C18: the fill loop writes no byte outside positions 0..15 of the buffer.
C18_NoByteOutsideBuffer == run.outside = {}

\* C19: a call makes at most two RDRAND draws, two RDSEED draws, one AES
\* round and as many engine draws as fill 16 bytes, and it comes to an end.
C19_BoundedAndTerminates ==
    /\ [](/\ run.rdrand <= 2
          /\ run.rdseed <= 2
          /\ run.aes <= 1
          /\ run.draws <= DrawsToFill(run.w))
    /\ <>(run.pc \in {"done", "crashed"})

\* A call has returned after two RDRAND draws and two RDSEED draws that all
\* failed and sixteen draws of a one-byte engine.
C19_Witness ==
    /\ run.pc = "done"
    /\ run.w = 1
    /\ run.rdrand = 2 /\ run.rdseed = 2 /\ run.aes = 0
    /\ run.draws = 16

(***************************************************************************)
(* Claims about ShardedDatabase.                                           *)
(***************************************************************************)
\* C20: a thread is between the lock and the unlock of generator_mutex_
\* exactly while it holds that mutex, so at most one thread is inside the
\* generator's call at a time; and no thread holds generator_mutex_ and a
\* shard's mutex together.
C20_GeneratorCalledUnderItsMutex ==
    /\ Cardinality({t \in Threads : db.pc[t] = "in_generator"}) <= 1
    /\ \A t \in Threads :
          /\ db.pc[t] \in {"gen_locked", "in_generator", "gen_called"}
                <=> db.generator_mutex_ = t
          /\ db.generator_mutex_ = t =>
                \A k \in 0..(SHARD_COUNT - 1) : db.shard_mutexes_[k] # t
          /\ db.pc[t] \in {"shard_locked", "emplaced"} =>
                db.shard_mutexes_[get_shard_id(db.id[t])] = t
          /\ \A k \in 0..(SHARD_COUNT - 1) :
                db.shard_mutexes_[k] = t =>
                   db.pc[t] \in {"shard_locked", "emplaced"} /\ k = get_shard_id(db.id[t])

\* One thread is inside the generator while the other holds a shard's mutex.
C20_Witness ==
    /\ db.pc["t1"] = "in_generator"
    /\ db.pc["t2"] = "shard_locked"
    /\ db.generator_mutex_ = "t1"
    /\ db.shard_mutexes_[get_shard_id(db.id["t2"])] = "t2"

(***************************************************************************)
(* The demo components that share one generator among threads.             *)
(***************************************************************************)
\* The threads that are between the first and the last statement of
\* generator_() in RequestTracker::start_request.
InsideTrackerGenerator == {t \in Threads : tracker.pc[t] = "in_generator"}

\* The threads that are inside generator_() of the UuidPool: callers of get()
\* in its overflow branch, and the refill thread in refill_pool.
InsidePoolGenerator ==
    {t \in Threads : pool.gpc[t] = "overflow_in_generator"}
        \cup (IF pool.rpc = "in_generator" THEN {"refill"} ELSE {})

\* The threads that are inside generator_() in UuidCache::insert.
InsideCacheGenerator == {t \in Threads : ucache.pc[t] = "in_generator"}

\* C21: in RequestTracker::start_request, UuidCache::insert and UuidPool
\* (get()'s overflow branch against the refill thread's refill_pool), at
\* most one thread at a time is inside the call of the shared generator.
C21_OneThreadInsideSharedGenerator ==
    /\ Cardinality(InsideTrackerGenerator) <= 1
    /\ Cardinality(InsidePoolGenerator) <= 1
    /\ Cardinality(InsideCacheGenerator) <= 1

\* Two threads are inside generator_() of one RequestTracker at once.
C21_TwoThreadsInsideTrackerGenerator ==
    Cardinality(InsideTrackerGenerator) = 2

(***************************************************************************)
(* RequestTracker's counters.                                              *)
(***************************************************************************)
\* No call of start_request or complete_request is in progress.
TrackerQuiescent == \A t \in Threads : tracker.pc[t] = "idle"

\* The distinct ids that the calls of start_request returned.
StartedIds ==
    UNION {{tracker.started[t][k] : k \in 1..Len(tracker.started[t])} : t \in Threads}

\* C27: once the calls have run to completion, active_count_ is the number
\* of entries of active_requests_ and active_count_ + completed_count_ is
\* the number of distinct ids that start_request returned; active_count_
\* never drops below zero (it never wraps round); and a complete_request of
\* an id that is not active changes neither the map nor the counters.
C27_CountersMatchTheMap ==
    /\ [](/\ TrackerQuiescent =>
                /\ tracker.active_count_ = WordOf(Cardinality(tracker.active_requests_))
                /\ WordAdd(tracker.active_count_, tracker.completed_count_)
                       = WordOf(Cardinality(StartedIds))
          /\ tracker.active_count_ \in {WordOf(n) : n \in 0..MaxRequests})
    /\ [][(/\ Len(tracker'.completions) = Len(tracker.completions) + 1
           /\ ~tracker'.completions[Len(tracker'.completions)][2])
          => /\ tracker'.active_requests_ = tracker.active_requests_
             /\ tracker'.active_count_ = tracker.active_count_
             /\ tracker'.completed_count_ = tracker.completed_count_]_vars

\* Two calls of start_request returned the same id, and both were counted.
C27_SameIdCountedTwice ==
    /\ TrackerQuiescent
    /\ Len(tracker.started["t1"]) = 1 /\ Len(tracker.started["t2"]) = 1
    /\ tracker.started["t1"][1] = tracker.started["t2"][1]
    /\ tracker.active_count_ = WordOf(2)
    /\ Cardinality(tracker.active_requests_) = 1

\* active_count_ has wrapped round below zero.
C27_ActiveCountBelowZero == tracker.active_count_ = WordOnes

(***************************************************************************)
(* UuidPool.                                                               *)
(***************************************************************************)
\* C23: whatever the interleaving of get() calls and the refill thread, no
\* value is returned by two calls of get(), and every slot that get()
\* returns has been written by refill_pool since it was last returned.
C23_NoUuidHandedOutTwice == ~pool.dup /\ ~pool.stale

\* A call of get() returned a slot that had not been rewritten since an
\* earlier call returned it.
C23_StaleSlotReturned == pool.stale

\* C24: once the destructor has set running_ to false and called
\* notify_all, the refill thread leaves its wait and exits, and the join
\* returns.
C24_DestructorCompletes == (pool.dpc = "notified") ~> (pool.dpc = "joined")

\* The destructor has notified and waits in join while the refill thread is
\* blocked in cv_.wait with no notification to come.
C24_WakeupLost == pool.dpc = "notified" /\ pool.rpc = "waiting"

\* The destructor's join has returned.
C24_Joined == pool.dpc = "joined"

(***************************************************************************)
(* UuidCache.                                                              *)
(***************************************************************************)
\* The keys held by lru_list_.
ListKeys == {ucache.lru_list_[k][2] : k \in 1..Len(ucache.lru_list_)}

InsertReturns ==
    \E t \in Threads : ucache.pc[t] = "have_uuid" /\ ucache'.pc[t] = "idle"

\* The step is a whole call of get.
GetReturns ==
    /\ ucache'.calls = ucache.calls + 1
    /\ ucache'.pc = ucache.pc
    /\ ucache'.last.op = "get"

\* The entries that the step removes, and their callbacks in <<uuid, value>> form.
RemovedByStep == ucache.entries_ \ ucache'.entries_

CallbacksDue == {<<e[1], e[2]>> : e \in {x \in RemovedByStep : x[4]}}

\* C26: an insert into a full cache removes exactly the entry least recently
\* inserted or read, and any other insert removes nothing; a get of an
\* expired entry removes it and returns nothing; a get of a live entry
\* returns its value and puts it at the front of lru_list_; and the
\* on_expire callback of every removed entry runs exactly once.
C26_LruEvictionAndExpiry ==
    [][/\ InsertReturns =>
            IF ucache.max_size_ >= 1 /\ Cardinality(ucache.entries_) >= ucache.max_size_
            THEN /\ ucache.used # <<>>
                 /\ KeysOf(RemovedByStep) = {ucache.used[Len(ucache.used)]}
                 /\ Cardinality(RemovedByStep) = 1
            ELSE RemovedByStep = {}
       /\ GetReturns /\ ucache'.last.id \in KeysOf(ucache.entries_) =>
            LET e == CHOOSE x \in ucache.entries_ : x[1] = ucache'.last.id
            IN  IF ucache.now > e[3]
                THEN /\ ucache'.last.result = <<"nullopt">>
                     /\ RemovedByStep = {e}
                ELSE /\ ucache'.last.result = <<"value", e[2]>>
                     /\ RemovedByStep = {}
                     /\ ucache'.lru_list_[1][2] = e[1]
                     /\ ucache'.used[1] = e[1]
       /\ Len(ucache'.fired) = Len(ucache.fired) + Cardinality(CallbacksDue)
       /\ SubSeq(ucache'.fired, 1, Len(ucache.fired)) = ucache.fired
       /\ {ucache'.fired[k] : k \in (Len(ucache.fired) + 1)..Len(ucache'.fired)}
              = CallbacksDue
      ]_vars

\* A get has returned the value of a live entry of a full cache of
\* capacity two, after an insert had evicted an entry with a callback.
C26_ReadAfterEviction ==
    /\ ucache.max_size_ = 2
    /\ Cardinality(ucache.entries_) = 2
    /\ ucache.last.op = "get"
    /\ ucache.last.result[1] = "value"
    /\ ucache.fired # <<>>
    /\ ucache.now = 0

(***************************************************************************)
(* The hardware path and the seed.                                         *)
(***************************************************************************)
\* The calls of generator g that returned bytes drawn from hardware.
HardwareCalls(g) == {i \in Returned(g) : out[g][i].path \in {"rdrand", "rdseed"}}

\* C22: a call whose hardware draw yields a usable pair returns a value
\* that depends on the hardware words and the AES flag only: two such calls,
\* on generators with different seeds or on one generator at different
\* engine states, return the same value if they drew the same words; and a
\* call that returned hardware bytes was made with hardware preferred and
\* drew a pair that is not all zero.
C22_HardwareValueIgnoresSeed ==
    \A g, h \in Gens : \A i \in HardwareCalls(g) :
        /\ gen[g].use_hw_rng_
        /\ out[g][i].hw # UuidZero
        /\ \A j \in HardwareCalls(h) :
              out[g][i].hw = out[h][j].hw => out[g][i].uuid = out[h][j].uuid

\* Two generators with different seeds, their engines in different states,
\* drew the same words with RDSEED after RDRAND had delivered zeros, and
\* returned the same value.
C22_Witness ==
    /\ gen["g1"].seeded /\ gen["g2"].seeded
    /\ gen["g1"].seed # gen["g2"].seed
    /\ Len(out["g1"]) = 1 /\ Len(out["g2"]) = 1
    /\ out["g1"][1].path = "rdseed" /\ out["g2"][1].path = "rdseed"
    /\ out["g1"][1].rdrand = 2
    /\ out["g1"][1].before # out["g2"][1].before
    /\ out["g1"][1].hw = out["g2"][1].hw
    /\ out["g1"][1].uuid = out["g2"][1].uuid


(***************************************************************************)
(* The ShardedDatabase as one map.                                         *)
(***************************************************************************)
\* Every pair the database holds, over all shards.
Stored == UNION {db.shards_[k] : k \in 0..(SHARD_COUNT - 1)}

\* The thread t executes the body of the call it holds the shard's mutex for.
KeyedActs(t) == db.pc[t] = "keyed_locked" /\ db'.pc[t] = "keyed_done"

\* C28: the database behaves like one atomic map under every interleaving
\* of insert, get, update and remove: an id is stored once and only in shard
\* (byte 0 ^ byte 3 ^ byte 8 ^ byte 15) & 15, the pairs stored are the ones
\* last written by a successful insert or update and not removed since,
\* insert on a stored id returns false and keeps the value, update and
\* remove on an id not stored return false and change nothing, and get
\* returns the value last written and not removed, or nothing.
C28_BehavesLikeOneAtomicMap ==
    /\ [](/\ \A k \in 0..(SHARD_COUNT - 1) : \A e \in db.shards_[k] :
                k = ByteAnd(ByteXor(ByteXor(ByteXor(e[1][1], e[1][4]), e[1][9]),
                                    e[1][16]), 15)
          /\ \A e1 \in Stored, e2 \in Stored : e1[1] = e2[1] => e1 = e2
          /\ Stored = db.written)
    /\ [][\A t \in Threads : KeyedActs(t) =>
            LET id == db.id[t]
                value == db.value[t]
                present == \E e \in Stored : e[1] = id
                others == {e \in Stored : e[1] # id}
                r == db'.result[t]
            IN  /\ db.op[t] = "insert" =>
                      IF present THEN r = <<"false">> /\ Stored' = Stored
                      ELSE r = <<"true">> /\ Stored' = Stored \cup {<<id, value>>}
                /\ db.op[t] = "update" =>
                      IF present
                      THEN r = <<"true">> /\ Stored' = others \cup {<<id, value>>}
                      ELSE r = <<"false">> /\ Stored' = Stored
                /\ db.op[t] = "remove" =>
                      IF present THEN r = <<"true">> /\ Stored' = others
                      ELSE r = <<"false">> /\ Stored' = Stored
                /\ db.op[t] = "get" =>
                      /\ Stored' = Stored
                      /\ r = IF \E e \in db.written : e[1] = id
                             THEN <<"value",
                                    (CHOOSE e \in db.written : e[1] = id)[2]>>
                             ELSE <<"nullopt">>]_vars

\* A get by t1 has returned the value t2 wrote with insert(id, value) or
\* update, while t2 is inside a call on the other shard.
C28_GetSeesTheOtherThreadsUpdate ==
    /\ db.pc["t1"] = "keyed_done" /\ db.op["t1"] = "get"
    /\ db.result["t1"] = <<"value", <<"t2", 0>>>>
    /\ db.pc["t2"] = "keyed_locked"
    /\ get_shard_id(db.id["t2"]) # get_shard_id(db.id["t1"])

====
